---- MODULE Spec2Model ----
(***************************************************************************)
(* Model of the query-based export of contentstack/cli-query-export.       *)
(*                                                                         *)
(* QueryExporter.execute (src/src/core/query-executor.ts) drives one run:  *)
(* parse query, export general modules, export queried modules, resolve    *)
(* referenced content types, export dependent modules, export entries,     *)
(* export referenced assets in batches.  ModuleExporter.exportModule       *)
(* (src/src/core/module-executor.ts) runs the external export command and  *)
(* keeps the exported-modules ledger.                                      *)
(*                                                                         *)
(* The external export command, the stack and the file system are the      *)
(* environment: the command either succeeds (and leaves its files on disk) *)
(* or throws; what a query matches is chosen nondeterministically.         *)
(***************************************************************************)
EXTENDS Integers, Sequences, FiniteSets, TLC

(***************************************************************************)
(* Bounds of the model                                                     *)
(***************************************************************************)
\* largest configured maxCTReferenceDepth explored
MaxDepth == 3
\* largest number of asset UIDs found in the exported entries
MaxAssets == 5
\* largest configured assetBatchSize explored (0 stands for "not set")
MaxBatchSize == 3
\* longest module list handed to orderModulesByDependencies
MaxSortLen == 3
\* most exporter method calls made in a row
MaxCalls == 3
\* deepest nesting of the explored module queries
MaxQueryNesting == 3
\* most objects nested around the leaf of a deep module query
MaxChainDepth == 5

(***************************************************************************)
(* Program constants                                                       *)
(***************************************************************************)
\* query-executor.ts:321  this.exportQueryConfig.assetBatchSize || 100
DefaultBatchSize == 100

\* config/index.ts:35  queryConfig.validation.maxQueryDepth
maxQueryDepth == 5
\* config/index.ts:36  queryConfig.validation.maxArraySize
maxArraySize == 1000

\* config/index.ts:10
GeneralModules == <<"stack", "locales", "environments">>
\* config/index.ts:12
QueryableModules == <<"content-types">>

\* the steps of one run, in the order execute() and exportContentModules()
\* invoke them
StepOrder ==
  <<"parse", "general", "queried", "referenced", "dependent", "entries", "assets">>

(***************************************************************************)
(* Universes the inputs are drawn from                                     *)
(***************************************************************************)
\* content types that exist in the stack, in the order the stack lists them
StackOrder == <<"blog", "author", "tag">>
ContentTypeUIDs == {StackOrder[i] : i \in 1..Len(StackOrder)}
\* a UID that reference fields may still name although no such content type
\* exists in the stack any more
MissingUIDs == {"deleted_ct"}
SysAssets == "sys_assets"
\* order in which reference_to arrays list their targets
TargetOrder == <<"blog", "author", "tag", "deleted_ct">>
RefTargets == ContentTypeUIDs \cup MissingUIDs

\* keys under which one export of the assets module may file its metadata
MetaKeys == {"chunk_a", "chunk_b"}

NoError == [step |-> "none", what |-> "none"]

(***************************************************************************)
(* Sequence helpers                                                        *)
(***************************************************************************)
Range(s) == {s[i] : i \in 1..Len(s)}

IsPrefix(s, t) == Len(s) <= Len(t) /\ \A i \in 1..Len(s) : s[i] = t[i]

\* Set.add on an insertion-ordered Set kept as a duplicate-free sequence
AddToSet(s, x) == IF x \in Range(s) THEN s ELSE Append(s, x)

RECURSIVE AddAllToSet(_, _)
AddAllToSet(s, xs) ==
  IF xs = <<>> THEN s ELSE AddAllToSet(AddToSet(s, Head(xs)), Tail(xs))

\* Array.prototype.filter with membership in a set as the predicate
FilterIn(s, S) == SelectSeq(s, LAMBDA x : x \in S)
FilterNotIn(s, S) == SelectSeq(s, LAMBDA x : x \notin S)

CeilDiv(n, b) == (n + b - 1) \div b
Min(a, b) == IF a <= b THEN a ELSE b

(***************************************************************************)
(* Content-type schemas                                                    *)
(***************************************************************************)
\* a schema field; "" stands for an absent extension_uid
Field(dt, refs, sub, blks, rte, embed) ==
  [data_type |-> dt, reference_to |-> refs, schema |-> sub, blocks |-> blks,
   rich_text_type |-> rte, embed_entry |-> embed, extension_uid |-> "",
   taxonomies |-> <<>>]

RefField(refs) == Field("reference", refs, <<>>, <<>>, FALSE, FALSE)

\* every target of the field, sys_assets included
referenceTargetsAll(field) == field.reference_to

\* part_001:130-135: field.reference_to.forEach(ref => ref !== 'sys_assets' ...)
referenceTargets(field) == FilterNotIn(field.reference_to, {SysAssets})

\* ReferencedContentTypesHandler.getReferencedContentTypes / traverseSchema:
\* the insertion-ordered set of reference targets of one schema, sys_assets
\* excluded, descending into groups, global fields and blocks
RECURSIVE TraverseSchema(_, _)
RECURSIVE TraverseBlocks(_, _)
TraverseBlocks(blocks, acc) ==
  IF blocks = <<>> THEN acc
  ELSE TraverseBlocks(Tail(blocks), TraverseSchema(Head(blocks), acc))

TraverseSchema(schemaArray, acc) ==
  IF schemaArray = <<>> THEN acc
  ELSE LET field == Head(schemaArray)
           refs == referenceTargets(field)
           acc1 ==
             IF field.data_type \in {"group", "global_field"}
               THEN TraverseSchema(field.schema, acc)
             ELSE IF field.data_type = "blocks"
               THEN TraverseBlocks(field.blocks, acc)
             ELSE IF field.data_type = "reference"
               THEN AddAllToSet(acc, refs)
             ELSE IF /\ field.data_type \in {"json", "text"}
                     /\ field.rich_text_type
                     /\ field.embed_entry
               THEN AddAllToSet(acc, refs)
             ELSE acc
       IN TraverseSchema(Tail(schemaArray), acc1)

getReferencedContentTypes(schema) == TraverseSchema(schema, <<>>)

\* ReferencedContentTypesHandler.extractReferencedContentTypes: the union over
\* the batch, as an insertion-ordered set
ExtractInto(batch, acc) ==
  LET F[i \in 0..Len(batch)] ==
        IF i = 0 THEN acc
        ELSE AddAllToSet(F[i - 1], getReferencedContentTypes(batch[i].schema))
  IN F[Len(batch)]
extractReferencedContentTypes(contentTypeBatch) == ExtractInto(contentTypeBatch, <<>>)

UIDsOf(records) == {records[i].uid : i \in 1..Len(records)}

(***************************************************************************)
(* Schema dependencies: ContentTypeDependenciesHandler                     *)
(***************************************************************************)
\* a global field; reference_to is the global field's UID
GlobalField(uid, sub) == Field("global_field", uid, sub, <<>>, FALSE, FALSE)

\* a custom field rendered by an extension
ExtensionField(uid) ==
  [Field("text", <<>>, <<>>, <<>>, FALSE, FALSE) EXCEPT !.extension_uid = uid]

\* a taxonomy field naming the taxonomies in taxonomyUIDs
TaxonomyField(taxonomyUIDs) ==
  [Field("taxonomy", <<>>, <<>>, <<>>, FALSE, FALSE) EXCEPT
     !.taxonomies = [i \in 1..Len(taxonomyUIDs) |-> [taxonomy_uid |-> taxonomyUIDs[i]]]]

GroupField(sub) == Field("group", <<>>, sub, <<>>, FALSE, FALSE)

\* a modular-blocks field; blks lists the schema of every block
BlocksField(blks) == Field("blocks", <<>>, <<>>, blks, FALSE, FALSE)

\* the sets traverseSchemaForDependencies fills
EmptyDependencies == [globalFields |-> {}, extensions |-> {}, taxonomies |-> {}]

\* ContentTypeDependenciesHandler.traverseSchemaForDependencies: global field
\* UIDs, extension UIDs and taxonomy UIDs of one schema, descending into
\* groups and blocks
RECURSIVE traverseSchemaForDependencies(_, _)
RECURSIVE traverseBlocksForDependencies(_, _)
\* a traversal that passes over modular blocks
traverseBlocksSkipped(blocks, deps) == deps

traverseBlocksForDependencies(blocks, deps) ==
  IF blocks = <<>> THEN deps
  ELSE traverseBlocksForDependencies(Tail(blocks),
         traverseSchemaForDependencies(Head(blocks), deps))

traverseSchemaForDependencies(schema, deps) ==
  IF schema = <<>> THEN deps
  ELSE LET field == Head(schema)
           d1 == IF field.data_type = "global_field" /\ field.reference_to # ""
                   THEN [deps EXCEPT !.globalFields = @ \cup {field.reference_to}]
                   ELSE deps
           d2 == IF field.extension_uid # ""
                   THEN [d1 EXCEPT !.extensions = @ \cup {field.extension_uid}]
                   ELSE d1
           d3 == IF field.data_type = "taxonomy"
                   THEN [d2 EXCEPT !.taxonomies = @ \cup
                           {field.taxonomies[i].taxonomy_uid :
                              i \in {j \in 1..Len(field.taxonomies) :
                                       field.taxonomies[j].taxonomy_uid # ""}}]
                   ELSE d2
           d4 == IF field.data_type = "group"
                   THEN traverseSchemaForDependencies(field.schema, d3)
                   ELSE d3
           d5 == IF field.data_type = "blocks"
                   THEN traverseBlocksForDependencies(field.blocks, d4)
                   ELSE d4
       IN traverseSchemaForDependencies(Tail(schema), d5)

\* extractDependencies, lines 48-52: the union over all content types
schemaDependencies(allContentTypes) ==
  LET F[i \in 0..Len(allContentTypes)] ==
        IF i = 0 THEN EmptyDependencies
        ELSE traverseSchemaForDependencies(allContentTypes[i].schema, F[i - 1])
  IN F[Len(allContentTypes)]

\* an extension record as the stack's extension query returns it; "" stands
\* for an absent app_uid or app_installation_uid
ExtensionItem(uid, appUID, installationUID) ==
  [uid |-> uid, app_uid |-> appUID, app_installation_uid |-> installationUID]

\* the condition with "or" in place of "and"
isMarketplaceAppEither(item) == item.app_uid # "" \/ item.app_installation_uid # ""

\* line 119: if (item.app_uid && item.app_installation_uid)
isMarketplaceApp(item) == item.app_uid # "" /\ item.app_installation_uid # ""

\* the fallback returning no extensions at all
fallbackNothing(extensionUIDs) == [extensions |-> {}, marketplaceApps |-> {}]

\* lines 110-113 and 133-136: every candidate is a plain extension
fallback(extensionUIDs) == [extensions |-> extensionUIDs, marketplaceApps |-> {}]

\* ContentTypeDependenciesHandler.fetchExtensionsAndMarketplaceApps: the
\* response is what stackAPIClient.extension().query().find() did
fetchExtensionsAndMarketplaceApps(extensionUIDs, response) ==
  IF response.outcome \in {"throws", "nothing"} THEN fallback(extensionUIDs)
  ELSE [extensions |-> {item.uid : item \in {i \in response.items : ~isMarketplaceApp(i)}},
        marketplaceApps |->
          {item.app_installation_uid : item \in {i \in response.items : isMarketplaceApp(i)}}]

\* ContentTypeDependenciesHandler.extractDependencies
extractDependencies(allContentTypes, response) ==
  LET deps == schemaDependencies(allContentTypes)
      separated == fetchExtensionsAndMarketplaceApps(deps.extensions, response)
  IN IF Len(allContentTypes) = 0 \/ deps.extensions = {}
       THEN [globalFields |-> deps.globalFields, extensions |-> deps.extensions,
             marketplaceApps |-> {}, taxonomies |-> deps.taxonomies]
       ELSE [globalFields |-> deps.globalFields, extensions |-> separated.extensions,
             marketplaceApps |-> separated.marketplaceApps,
             taxonomies |-> deps.taxonomies]

(***************************************************************************)
(* Query input                                                             *)
(***************************************************************************)
\* A query input: where the text comes from, whether it is well-formed JSON,
\* and the shape of the parsed value as far as validate() inspects it.
QueryInput(src, ok, type, hasModules, modulesIsObject, keys) ==
  [source |-> src, text_ok |-> ok, type |-> type, has_modules |-> hasModules,
   modules_is_object |-> modulesIsObject, keys |-> keys]

ValidQuery == QueryInput("string", TRUE, "object", TRUE, TRUE, <<"content-types">>)

QueryInputs ==
  { ValidQuery,
    QueryInput("file", TRUE, "object", TRUE, TRUE, <<"content-types">>),
    QueryInput("string", FALSE, "none", FALSE, FALSE, <<>>),
    QueryInput("file", FALSE, "none", FALSE, FALSE, <<>>),
    QueryInput("string", TRUE, "null", FALSE, FALSE, <<>>),
    QueryInput("string", TRUE, "number", FALSE, FALSE, <<>>),
    QueryInput("string", TRUE, "object", FALSE, FALSE, <<>>),
    QueryInput("string", TRUE, "object", TRUE, FALSE, <<>>),
    QueryInput("string", TRUE, "object", TRUE, TRUE, <<>>),
    QueryInput("string", TRUE, "object", TRUE, TRUE, <<"entries">>),
    QueryInput("string", TRUE, "object", TRUE, TRUE, <<"content-types", "assets">>) }

\* QueryParser.parseFromFile / parseFromString: the CLIError JSON.parse's
\* failure is turned into, "ok" when the text parses
parseText(q) ==
  IF q.text_ok THEN "ok"
  ELSE IF q.source = "file" THEN "Failed to parse query file"
  ELSE "Invalid JSON query"

\* a validate without the loop over the modules
validateShape(q) ==
  IF q.type # "object" THEN "Query must be a valid JSON object"
  ELSE IF ~q.has_modules \/ ~q.modules_is_object
    THEN "Query must contain a \"modules\" object"
  ELSE IF Len(q.keys) = 0 THEN "Query must contain at least one module"
  ELSE "ok"

\* QueryParser.validate: the CLIError it throws, "ok" when it returns
validate(q) ==
  IF q.type # "object" THEN "Query must be a valid JSON object"
  ELSE IF ~q.has_modules \/ ~q.modules_is_object
    THEN "Query must contain a \"modules\" object"
  ELSE IF Len(q.keys) = 0 THEN "Query must contain at least one module"
  ELSE IF \E i \in 1..Len(q.keys) : q.keys[i] \notin Range(QueryableModules)
    THEN "Module is not queryable"
  ELSE "ok"

\* parse without the call of validate
parseWithoutValidate(q) == parseText(q)

\* QueryParser.parse: parse the text, then validate the value
parse(q) == IF parseText(q) # "ok" THEN parseText(q) ELSE validate(q)

(***************************************************************************)
(* Parsed queries as JSON values                                           *)
(***************************************************************************)
\* A JSON value: its kind, for an object its entries in insertion order, for
\* an array its elements as entries keyed by index (what Object.entries
\* yields) and its length.
Node(kind, entries, length) == [kind |-> kind, entries |-> entries, length |-> length]
Entry(k, v) == [key |-> k, value |-> v]
IndexKey(i) == CASE i = 1 -> "0" [] i = 2 -> "1" [] OTHER -> "2"

Null == Node("null", <<>>, 0)
Undefined == Node("undefined", <<>>, 0)
\* a number other than 0, a string other than ""
Num == Node("number", <<>>, 0)
Str == Node("string", <<>>, 0)
Obj(entries) == Node("object", entries, Len(entries))
Arr(items) ==
  Node("array", [i \in 1..Len(items) |-> Entry(IndexKey(i), items[i])], Len(items))

\* typeof v === 'object'
TypeofObject(v) == v.kind \in {"object", "array", "null"}
\* typeof v === 'object' && v !== null
IsObject(v) == v.kind \in {"object", "array"}
\* !v is false
Truthy(v) == v.kind \notin {"null", "undefined"}
\* Object.keys(v)
Keys(v) == [i \in 1..Len(v.entries) |-> v.entries[i].key]
\* v[key]
Get(v, key) ==
  IF \E i \in 1..Len(v.entries) : v.entries[i].key = key
    THEN v.entries[CHOOSE i \in 1..Len(v.entries) : v.entries[i].key = key].value
    ELSE Undefined

\* what QueryParser.validate inspects of a parsed value
Inspect(doc) ==
  LET mods == Get(doc, "modules")
  IN QueryInput("string", TRUE,
                IF IsObject(doc) THEN "object" ELSE doc.kind,
                Truthy(mods), TypeofObject(mods),
                IF IsObject(mods) THEN Keys(mods) ELSE <<>>)

\* the outcome of a validation: the error's text, the name it quotes and
\* the list it enumerates; Accepted when nothing is thrown
Verdict(what, name, listed) == [what |-> what, name |-> name, listed |-> listed]
Accepted == Verdict("ok", "", <<>>)

\* the first error of a sequence of checks made in order
FirstFailure(verdicts) ==
  IF \E i \in 1..Len(verdicts) : verdicts[i] # Accepted
    THEN verdicts[CHOOSE i \in 1..Len(verdicts) :
                    /\ verdicts[i] # Accepted
                    /\ \A j \in 1..(i - 1) : verdicts[j] = Accepted]
    ELSE Accepted

\* the first module of the query that is not in the whitelist
firstNotQueryable(keys, queryable) ==
  keys[CHOOSE i \in 1..Len(keys) :
         /\ keys[i] \notin Range(queryable)
         /\ \A j \in 1..(i - 1) : keys[j] \in Range(queryable)]

\* query-handler.ts:134-155: the error validate throws, with the module its
\* message quotes and the modules it lists
validateVerdict(q) ==
  IF validate(q) = "Module is not queryable"
    THEN Verdict(validate(q), firstNotQueryable(q.keys, QueryableModules), QueryableModules)
    ELSE Verdict(validate(q), "", <<>>)

(***************************************************************************)
(* The strict QueryParser (src/unnamed/part_002)                           *)
(***************************************************************************)
\* queryConfig.supportedOperators of the queryable module: the operators
\* a module query may use (VALID_OPERATORS, part_000:73-89)
supportedOperators ==
  <<"$eq", "$ne", "$lt", "$lte", "$gt", "$gte", "$in", "$nin", "$exists", "$regex",
    "$all", "$and", "$or", "$not", "$nor">>

\* queryConfig.defaultOperators: the operators allowed under a field
defaultOperators == supportedOperators

\* queryConfig.supportedFields of content-types: the fields a query may
\* name (MODULE_VALID_FIELDS, part_000:24-34)
supportedFields ==
  <<"uid", "title", "description", "created_at", "updated_at", "created_by",
    "updated_by", "tags", "singleton">>

\* the keys of the explored queries that start with '$'
OperatorKeys == Range(supportedOperators) \cup {"$badop"}

\* key.startsWith('$')
IsOperatorKey(k) == k \in OperatorKeys

\* moduleConfig?.queryConfig is set for the queryable module
HasQueryConfig(moduleName) == moduleName \in Range(QueryableModules)

RECURSIVE validateQueryOperators(_, _)
\* an operator check that looks at the keys of the object only
validateQueryOperatorsShallow(queryObj, operators) ==
  FirstFailure(
    [i \in 1..Len(queryObj.entries) |->
       LET key == queryObj.entries[i].key
       IN IF IsOperatorKey(key) /\ key \notin Range(operators)
            THEN Verdict("Invalid query operator", key, operators)
            ELSE Accepted])

\* lines 86-98
validateQueryOperators(queryObj, operators) ==
  FirstFailure(
    [i \in 1..Len(queryObj.entries) |->
       LET key == queryObj.entries[i].key
           value == queryObj.entries[i].value
       IN IF IsOperatorKey(key) /\ key \notin Range(operators)
            THEN Verdict("Invalid query operator", key, operators)
          ELSE IF IsObject(value)
            THEN validateQueryOperators(value, operators)
          ELSE Accepted])

\* lines 100-113
validateQueryFields(queryObj, fields, moduleName) ==
  FirstFailure(
    [i \in 1..Len(queryObj.entries) |->
       LET key == queryObj.entries[i].key
           value == queryObj.entries[i].value
       IN IF ~IsOperatorKey(key) /\ key \notin Range(fields)
            THEN Verdict("Invalid query field", key, fields)
          ELSE IF IsObject(value) /\ ~IsOperatorKey(key)
            THEN validateQueryOperators(value, defaultOperators)
          ELSE Accepted])

\* lines 74-84
validateModuleQuery(moduleName, moduleQuery) ==
  IF ~Truthy(moduleQuery) \/ ~TypeofObject(moduleQuery)
    THEN Verdict("Query for module must be an object", moduleName, <<>>)
  ELSE IF HasQueryConfig(moduleName)
    THEN FirstFailure(<<validateQueryOperators(moduleQuery, supportedOperators),
                        validateQueryFields(moduleQuery, supportedFields, moduleName)>>)
  ELSE Accepted

\* lines 115-133
RECURSIVE validateQueryDepth(_, _)
validateQueryDepth(obj, depth) ==
  IF depth > maxQueryDepth
    THEN Verdict("Query depth exceeds maximum allowed depth", "", <<>>)
  ELSE IF IsObject(obj)
    THEN FirstFailure(
           [i \in 1..(2 * Len(obj.entries)) |->
              LET value == obj.entries[(i + 1) \div 2].value
              IN IF i % 2 = 1
                   THEN IF TypeofObject(value)
                          THEN validateQueryDepth(value, depth + 1)
                          ELSE Accepted
                   ELSE IF value.kind = "array" /\ value.length > maxArraySize
                          THEN Verdict("Array size exceeds maximum allowed size", "", <<>>)
                          ELSE Accepted])
  ELSE Accepted

\* lines 43-72: the error the strict validate throws, Accepted when none
strictValidate(query) ==
  LET q == Inspect(query)
      mods == Get(query, "modules")
  IN IF validate(q) # "ok" THEN validateVerdict(q)
     ELSE FirstFailure(
            [i \in 1..Len(mods.entries) |->
               validateModuleQuery(mods.entries[i].key, mods.entries[i].value)]
            \o <<validateQueryDepth(query, 0)>>)

(***************************************************************************)
(* State                                                                   *)
(***************************************************************************)
VARIABLES
  cfg,                     \* exportQueryConfig: maxCTReferenceDepth, assetBatchSize
  query,                   \* exportQueryConfig.query, as a QueryInput
  stack,                   \* the stack: schema of every existing content type
  matched,                 \* UIDs of the content types the user's query matches
  pc,                      \* position of the run
  loopIdx,                 \* index of the for-loop the run is in
  parsedQuery,             \* keys of parsedQuery.modules
  exportCalls,             \* ExportCommand.run invocations, in order
  exportedModules,         \* ModuleExporter.exportedModules (the ledger)
  logs,                    \* log records written so far
  started,                 \* orchestrator steps begun, in order
  completed,               \* orchestrator steps finished, in order
  raised,                  \* the error raised inside a step (NoError if none)
  thrown,                  \* the error execute() rejected with (NoError if none)
  schemaFile,              \* content_types/schema.json
  contentTypes,            \* exportReferencedContentTypes: accumulated list
  currentBatch,            \* exportReferencedContentTypes: batch to scan next
  exportedContentTypeUIDs, \* exportReferencedContentTypes: UIDs seen
  iterationCount,          \* exportReferencedContentTypes: iterations run
  loopExit,                \* how the while loop was left
  dependencies,            \* result of extractDependencies
  lookup,                  \* extractDependencies: the extension lookup made
  modules,                 \* DependencyResolver: the modules to order
  orderedModules,          \* DependencyResolver: result of orderModules
  assetUIDs,               \* exportReferencedAssets: UIDs found in the entries
  batchIdx,                \* exportReferencedAssets: loop variable i
  assetFile,               \* assets/assets.json
  metadataFile,            \* assets/metadata.json
  tempFiles,               \* assets/assets_temp.json and metadata_temp.json
  moduleList,              \* orderModulesByDependencies: the modules argument
  dependencyMap,           \* which dependency table the resolver is built with
  visited,                 \* orderModulesByDependencies: modules done
  visiting,                \* orderModulesByDependencies: modules in progress
  result,                  \* orderModulesByDependencies: the order built so far
  callStack,               \* orderModulesByDependencies: active visit() calls
  sortIdx,                 \* orderModulesByDependencies: outer loop index
  sortSteps,               \* orderModulesByDependencies: steps taken
  sortError,               \* module named by the circular-dependency error
  executorLedger,          \* ModuleExecutor.exportedModules
  executorCalls,           \* number of ModuleExecutor method calls made
  lastCall,                \* the last ModuleExecutor / ModuleExporter call made
  flags,                   \* exportQueryConfig: skipReferences, skipDependencies,
                           \* securedAssets
  queryMetaFile,           \* <exportDir>/_query-meta.json
  document,                \* the parsed query handed to the validators
  verdict,                 \* outcome of QueryParser.validate
  strictVerdict,           \* outcome of the strict QueryParser.validate
  fieldPath,               \* the schema handed to the two schema traversals
  extraction,              \* what the two schema traversals returned
  environment,             \* process.env.ENVIRONMENT
  content,                 \* the text of the entry field that is serialized
  assetMatches,            \* what extractAssetUIDsFromString returned
  entryFiles,              \* the .json files under the entries directory
  fileIdx,                 \* extractReferencedAssets: position in jsonFiles
  globalAssetUIDs,         \* extractReferencedAssets: the set of UIDs found
  warnings,                \* files named by a "Failed to process file" warning
  fetcher,                 \* the paginated fetch under way and the stack it reads
  skip,                    \* the fetch loop: let skip
  requests,                \* the skip of every request sent so far
  collected,               \* the fetch loop: the items pushed so far
  inflight                 \* the exportModule calls that have been made

runVars == <<cfg, query, stack, matched, pc, loopIdx, parsedQuery>>
exporterVars == <<exportCalls, exportedModules, logs>>
stepVars == <<started, completed, raised, thrown>>
closureVars ==
  <<schemaFile, contentTypes, currentBatch, exportedContentTypeUIDs,
    iterationCount, loopExit>>
assetVars == <<assetUIDs, batchIdx, assetFile, metadataFile, tempFiles>>
dependencyVars == <<dependencies, lookup>>
sortVars ==
  <<moduleList, dependencyMap, visited, visiting, result, callStack, sortIdx,
    sortSteps, sortError>>
executorVars == <<executorLedger, executorCalls, lastCall>>
flagVars == <<flags, queryMetaFile>>
validatorVars == <<document, verdict, strictVerdict>>
schemaVars == <<fieldPath, extraction>>
\* the state of the helpers that are exercised on their own
stringVars == <<environment, content, assetMatches>>
fileVars == <<entryFiles, fileIdx, globalAssetUIDs, warnings>>
pageVars == <<fetcher, skip, requests, collected>>
concurrentVars == <<inflight>>
unitVars == <<schemaVars, stringVars, fileVars, pageVars, concurrentVars>>
resolverVars ==
  <<modules, orderedModules, sortVars, executorVars, flagVars, validatorVars, unitVars,
    unitVars>>
vars ==
  <<runVars, exporterVars, stepVars, closureVars, dependencyVars, assetVars,
    resolverVars>>

NoDependencies ==
  [globalFields |-> {}, extensions |-> {}, marketplaceApps |-> {}, taxonomies |-> {}]
NoTempFiles == [exists |-> FALSE, metadata |-> {}, assets |-> {}]
\* no extension lookup has been made
NoLookup == [made |-> FALSE, candidates |-> {}, outcome |-> "none", items |-> {}]
\* no module named by an error
NoModule == "none"

\* orderModulesByDependencies has not been called
IdleSorter ==
  /\ moduleList = <<>>
  /\ dependencyMap = "shipped"
  /\ visited = {}
  /\ visiting = {}
  /\ result = <<>>
  /\ callStack = <<>>
  /\ sortIdx = 1
  /\ sortSteps = 0
  /\ sortError = NoModule

\* no exporter method has been called directly
NoCall == [method |-> "none", module |-> NoModule, ok |-> TRUE]

\* a freshly constructed ModuleExecutor (module-executor.ts:11)
IdleExecutor ==
  /\ executorLedger = <<>>
  /\ executorCalls = 0
  /\ lastCall = NoCall

\* config-handler.ts:14-15: the flags when none is given on the command line
NoFlags == [skipReferences |-> FALSE, skipDependencies |-> FALSE, securedAssets |-> FALSE]

\* _query-meta.json does not exist
NoFile == [exists |-> FALSE, query |-> <<>>, exportedModules |-> <<>>, flags |-> NoFlags]

\* the export directory before the run
IdleSidecar == queryMetaFile = NoFile

\* query-handler.ts:77-90: writeQueryMetadata(metadata, exportDir) leaves the
\* metadata in _query-meta.json, or nothing if the metadata has no key.  No
\* statement of QueryExporter calls it.
writeQueryMetadata(metadata, file) ==
  IF metadata = <<>>
    THEN file
    ELSE [exists |-> TRUE, query |-> metadata.query,
          exportedModules |-> metadata.exportedModules, flags |-> metadata.flags]

\* no validator has been called
NotValidated == [what |-> "none", name |-> "", listed |-> <<>>]

IdleValidator ==
  /\ document = [kind |-> "undefined", entries |-> <<>>, length |-> 0]
  /\ verdict = NotValidated
  /\ strictVerdict = NotValidated

\* no schema has been traversed
NoPath == [wrappers |-> <<>>, leaf |-> "none"]
NoExtraction ==
  [referenced |-> <<>>, globalFields |-> {}, extensions |-> {}, taxonomies |-> {}]
IdleSchema ==
  /\ fieldPath = NoPath
  /\ extraction = NoExtraction

\* no string has been scanned
IdleString ==
  /\ environment = "PROD"
  /\ content = <<>>
  /\ assetMatches = <<>>

\* no entries directory has been scanned
IdleFiles ==
  /\ entryFiles = <<>>
  /\ fileIdx = 1
  /\ globalAssetUIDs = <<>>
  /\ warnings = {}

\* no paginated fetch is under way
NoFetcher == [loop |-> "none", total |-> 0, limit |-> 1, reportsCount |-> FALSE]
IdlePages ==
  /\ fetcher = NoFetcher
  /\ skip = 0
  /\ requests = <<>>
  /\ collected = <<>>

\* no exportModule call has been made concurrently
IdleConcurrent == inflight = <<>>

IdleUnits == IdleSchema /\ IdleString /\ IdleFiles /\ IdlePages /\ IdleConcurrent

\* the components a run of execute() never drives are idle
Idle ==
  /\ IdleSorter
  /\ IdleExecutor
  /\ IdleSidecar
  /\ IdleValidator
  /\ IdleUnits

(***************************************************************************)
(* ModuleExporter.exportModule                                             *)
(***************************************************************************)
Log(level, msg, arg) == <<level, msg, arg>>

ExportCall(m, filter, uids) == [module |-> m, filter |-> filter, uids |-> uids]

\* a push without the membership test
recordUnguarded(ledger, m) == Append(ledger, m)

\* module-executor.ts:293-295: record the module unless already recorded
recordExported(ledger, m) == IF m \in Range(ledger) THEN ledger ELSE Append(ledger, m)

\* a catch block that throws a new error instead of the one it caught
rethrowAnother(error) == [step |-> error.step, what |-> "Error"]

\* catch (error) { log.error(...); throw error; }
rethrow(error) == error

\* a ledger that records the module whether or not the command completed
ledgerAfterAlways(ledger, m, ok) == recordExported(ledger, m)

\* module-executor.ts:286-295: the push is reached only if ExportCommand.run
\* did not throw
ledgerAfter(ledger, m, ok) == IF ok THEN recordExported(ledger, m) ELSE ledger

\* One exportModule(m, { query }) call: the export command is run and either
\* completes (ok) or throws; moreLogs are the caller's own log records.
exportModule(m, filter, uids, ok, moreLogs) ==
  /\ exportCalls' = Append(exportCalls, ExportCall(m, filter, uids))
  /\ exportedModules' = ledgerAfter(exportedModules, m, ok)
  /\ logs' = logs \cup moreLogs \cup
       { Log("info", "Exporting module", m),
         IF ok THEN Log("info", "Successfully exported", m)
               ELSE Log("error", "Failed to export", m) }

\* the error an export command failure surfaces as, raised in step s
ExportError(s, m) == [step |-> s, what |-> m]

\* execute() rejects with error e; nothing after the failing statement runs
Reject(e, propagated) ==
  /\ raised' = e
  /\ thrown' = propagated
  /\ pc' = "rejected"

BeginStep(s) == IF s \in Range(started) THEN started ELSE Append(started, s)

(***************************************************************************)
(* The stack                                                               *)
(***************************************************************************)
\* schema of a content type whose one reference field names the targets S
\* (and, as reference fields may, the assets pseudo content type)
SchemaFor(S) == << RefField(<<SysAssets>> \o FilterIn(TargetOrder, S)) >>

\* every reference graph over the content types and the missing UID
AllStacks == [ContentTypeUIDs -> {SchemaFor(S) : S \in SUBSET RefTargets}]

\* blog -> author -> tag; blog embeds a global field and a custom field,
\* author has a taxonomy field inside a group
ChainStack ==
  [u \in ContentTypeUIDs |->
     IF u = "blog"
       THEN SchemaFor({"author"}) \o
            <<GlobalField("gf_seo", <<>>), ExtensionField("ext_color")>>
     ELSE IF u = "author"
       THEN SchemaFor({"tag"}) \o <<GroupField(<<TaxonomyField(<<"tax_topics">>)>>)>>
     ELSE SchemaFor({})]

\* blog <-> author, both also naming the missing content type
MutualStack ==
  [u \in ContentTypeUIDs |->
     IF u = "blog" THEN SchemaFor({"author", "deleted_ct"})
     ELSE IF u = "author" THEN SchemaFor({"blog", "deleted_ct"})
     ELSE SchemaFor({})]

\* the stacks whole runs are explored on
RunStacks == {ChainStack, MutualStack}

ContentTypeRecord(u) == [uid |-> u, schema |-> stack[u]]

\* what an export of content types leaves in schema.json: the records of the
\* existing content types among uids, in the stack's order
ExportedContentTypes(uids) ==
  LET present == FilterIn(StackOrder, uids)
  IN [i \in 1..Len(present) |-> ContentTypeRecord(present[i])]

(***************************************************************************)
(* QueryExporter.execute: steps 1-3                                        *)
(***************************************************************************)
\* execute() with the queried modules exported before the general modules
nextStepQueriedFirst(s) ==
  CASE s = "parse" -> "queried"
    [] s = "queried" -> "general"
    [] s = "general" -> "read_content_types"
    [] s = "read_content_types" -> "referenced"
    [] s = "referenced" -> "dependent"
    [] s = "dependent" -> "entries"
    [] s = "entries" -> "assets"
    [] s = "assets" -> "done"

\* the statement order of execute() and exportContentModules()
nextStep(s) ==
  CASE s = "parse" -> "general"
    [] s = "general" -> "queried"
    [] s = "queried" -> "read_content_types"
    [] s = "read_content_types" -> "referenced"
    [] s = "referenced" -> "dependent"
    [] s = "dependent" -> "entries"
    [] s = "entries" -> "assets"
    [] s = "assets" -> "done"

\* Step 1: parse and validate the query
Parse ==
  /\ pc = "parse"
  /\ started' = BeginStep("parse")
  /\ IF parse(query) = "ok"
       THEN /\ parsedQuery' = query.keys
            /\ completed' = Append(completed, "parse")
            /\ pc' = nextStep("parse")
            /\ logs' = logs \cup { Log("info", "Starting query-based export...", ""),
                                   Log("debug", "Parsing and validating query", ""),
                                   Log("info", "Query parsed and validated successfully", "") }
            /\ UNCHANGED <<raised, thrown>>
       ELSE /\ Reject([step |-> "parse", what |-> parse(query)],
                      [step |-> "parse", what |-> parse(query)])
            /\ logs' = logs \cup { Log("info", "Starting query-based export...", ""),
                                   Log("debug", "Parsing and validating query", "") }
            /\ UNCHANGED <<parsedQuery, completed>>
  /\ UNCHANGED <<resolverVars, cfg, query, stack, matched, loopIdx, exportCalls, exportedModules,
                 closureVars, dependencyVars, assetVars>>

\* Step 2: exportGeneralModules, one loop iteration (or the loop's end)
ExportGeneralModules ==
  /\ pc = "general"
  /\ started' = BeginStep("general")
  /\ IF loopIdx > Len(GeneralModules)
       THEN /\ completed' = Append(completed, "general")
            /\ pc' = nextStep("general")
            /\ loopIdx' = 1
            /\ logs' = logs \cup {Log("info", "Exporting general modules...", "")}
            /\ UNCHANGED <<exportCalls, exportedModules, raised, thrown>>
       ELSE \E ok \in BOOLEAN :
            /\ exportModule(GeneralModules[loopIdx], "none", <<>>, ok,
                            {Log("info", "Exporting general modules...", "")})
            /\ IF ok
                 THEN /\ loopIdx' = loopIdx + 1
                      /\ UNCHANGED <<pc, raised, thrown>>
                 ELSE /\ Reject(ExportError("general", GeneralModules[loopIdx]),
                                rethrow(ExportError("general", GeneralModules[loopIdx])))
                      /\ UNCHANGED loopIdx
            /\ UNCHANGED completed
  /\ UNCHANGED <<resolverVars, cfg, query, stack, matched, parsedQuery, closureVars, dependencyVars, assetVars>>

\* Step 4: exportQueriedModule, one loop iteration (or the loop's end).  The
\* export of content types with the user's query leaves the matching content
\* types in schema.json.
ExportQueriedModule ==
  /\ pc = "queried"
  /\ started' = BeginStep("queried")
  /\ IF loopIdx > Len(parsedQuery)
       THEN /\ completed' = Append(completed, "queried")
            /\ pc' = nextStep("queried")
            /\ loopIdx' = 1
            /\ logs' = logs \cup { Log("debug", "Starting queried module export", ""),
                                   Log("debug", "Queried module export completed", "") }
            /\ UNCHANGED <<exportCalls, exportedModules, raised, thrown, schemaFile,
                           matched>>
       ELSE LET module == parsedQuery[loopIdx] IN
            IF module \notin Range(QueryableModules)
              THEN /\ logs' = logs \cup { Log("debug", "Starting queried module export", ""),
                                          Log("error", "Module is not queryable", module) }
                   /\ loopIdx' = loopIdx + 1
                   /\ UNCHANGED <<exportCalls, exportedModules, raised, thrown,
                                  schemaFile, matched, pc, completed>>
              ELSE \E ok \in BOOLEAN :
                   /\ exportModule(module, "parsed", <<>>, ok,
                                   { Log("debug", "Starting queried module export", ""),
                                     Log("info", "Exporting with query...", module) })
                   /\ IF ok
                        THEN /\ loopIdx' = loopIdx + 1
                             /\ IF module = "content-types"
                                  THEN /\ matched' \in SUBSET ContentTypeUIDs
                                       /\ schemaFile' = ExportedContentTypes(matched')
                                  ELSE UNCHANGED <<matched, schemaFile>>
                             /\ UNCHANGED <<pc, raised, thrown>>
                        ELSE /\ Reject(ExportError("queried", module),
                                       rethrow(ExportError("queried", module)))
                             /\ UNCHANGED <<loopIdx, schemaFile, matched>>
                   /\ UNCHANGED completed
  /\ UNCHANGED <<resolverVars, cfg, query, stack, parsedQuery, contentTypes, currentBatch,
                 exportedContentTypeUIDs, iterationCount, loopExit, dependencyVars,
                 assetVars>>

\* execute(), lines 47-57: read schema.json; no content types ends the process
ReadContentTypes ==
  /\ pc = "read_content_types"
  /\ IF Len(schemaFile) = 0
       THEN /\ logs' = logs \cup {Log("info", "No content types found, skipping export", "")}
            /\ pc' = "exited"
       ELSE /\ logs' = logs \cup {Log("debug", "Starting referenced content types export", "")}
            /\ pc' = nextStep("read_content_types")
  /\ UNCHANGED <<resolverVars, cfg, query, stack, matched, loopIdx, parsedQuery, exportCalls, exportedModules,
                 stepVars, closureVars, dependencyVars, assetVars>>

(***************************************************************************)
(* QueryExporter.exportReferencedContentTypes                              *)
(***************************************************************************)
\* the while condition without the iteration cap
whileConditionNoCap(batch, count, maxDepth) == Len(batch) > 0

\* line 127: the while condition
whileCondition(batch, count, maxDepth) == Len(batch) > 0 /\ count < maxDepth

\* no filtering of the referenced UIDs
filterNewNothing(referencedUIDs, exported) == referencedUIDs

\* line 135: referencedUIDs.filter(uid => !exportedContentTypeUIDs.has(uid))
filterNew(referencedUIDs, exported) == FilterNotIn(referencedUIDs, exported)

\* the fetched content types are not added to the accumulated list
pushAllNothing(list, newContentTypes) == list

\* line 163: contentTypes.push(...newContentTypes)
pushAll(list, newContentTypes) == list \o newContentTypes

\* lines 100-125: read the initial content types, set up the loop
RefCT_Begin ==
  /\ pc = "referenced"
  /\ started' = BeginStep("referenced")
  /\ contentTypes' = schemaFile
  /\ IF Len(schemaFile) = 0
       THEN /\ logs' = logs \cup
                 { Log("info", "Starting export of referenced content types...", ""),
                   Log("info", "No content types found, skipping referenced content types export", "") }
            /\ completed' = Append(completed, "referenced")
            /\ pc' = nextStep("referenced")
            /\ UNCHANGED <<currentBatch, exportedContentTypeUIDs, iterationCount>>
       ELSE /\ logs' = logs \cup
                 { Log("info", "Starting export of referenced content types...", ""),
                   Log("info", "Starting with initial content types", "") }
            /\ currentBatch' = schemaFile
            /\ exportedContentTypeUIDs' = {}
            /\ iterationCount' = 0
            /\ pc' = "refct_loop"
            /\ UNCHANGED completed
  /\ UNCHANGED <<resolverVars, cfg, query, stack, matched, loopIdx, parsedQuery, exportCalls, exportedModules,
                 raised, thrown, schemaFile, loopExit, dependencyVars, assetVars>>

\* lines 127-170: one iteration of the while loop
RefCT_Iterate ==
  /\ pc = "refct_loop"
  /\ whileCondition(currentBatch, iterationCount, cfg.maxCTReferenceDepth)
  /\ LET seen == exportedContentTypeUIDs \cup UIDsOf(currentBatch)
         referencedUIDs == extractReferencedContentTypes(currentBatch)
         newReferencedUIDs == filterNew(referencedUIDs, seen)
     IN /\ iterationCount' = iterationCount + 1
        /\ exportedContentTypeUIDs' = seen
        /\ IF Len(newReferencedUIDs) > 0
             THEN \E ok \in BOOLEAN :
                  IF ok
                    THEN /\ exportModule("content-types", "uid_in", newReferencedUIDs, TRUE,
                                 { Log("debug", "Processing referenced content types iteration", ""),
                                   Log("info", "Found new referenced content types to fetch", ""),
                                   Log("info", "Fetched new content types for next iteration", "") })
                            /\ schemaFile' = ExportedContentTypes(Range(newReferencedUIDs))
                            /\ currentBatch' = schemaFile'
                            /\ contentTypes' = pushAll(contentTypes, schemaFile')
                            /\ UNCHANGED <<pc, raised, thrown, loopExit>>
                       ELSE /\ exportModule("content-types", "uid_in", newReferencedUIDs, FALSE,
                                 { Log("debug", "Processing referenced content types iteration", ""),
                                   Log("info", "Found new referenced content types to fetch", ""),
                                   Log("error", "Error exporting referenced content types", "") })
                            /\ Reject(ExportError("referenced", "content-types"),
                                      rethrow(rethrow(ExportError("referenced", "content-types"))))
                            /\ UNCHANGED <<schemaFile, currentBatch, contentTypes, loopExit>>
             ELSE /\ logs' = logs \cup
                       { Log("debug", "Processing referenced content types iteration", ""),
                         Log("info", "No new referenced content types found, stopping recursion", "") }
                  /\ loopExit' = "fixed_point"
                  /\ pc' = "refct_write"
                  /\ UNCHANGED <<exportCalls, exportedModules, raised, thrown, schemaFile,
                                 currentBatch, contentTypes>>
  /\ UNCHANGED <<resolverVars, cfg, query, stack, matched, loopIdx, parsedQuery, started, completed,
                 dependencyVars, assetVars>>

\* leaving the loop at the iteration cap treated as a failure: nothing is
\* written and an error is thrown
RefCT_FinishThrowsAtCap ==
  /\ \/ pc = "refct_write"
     \/ /\ pc = "refct_loop"
        /\ ~whileCondition(currentBatch, iterationCount, cfg.maxCTReferenceDepth)
  /\ loopExit' = IF pc = "refct_write" THEN loopExit
                 ELSE IF Len(currentBatch) = 0 THEN "empty_batch"
                 ELSE "cap"
  /\ IF loopExit' = "cap"
       THEN /\ Reject([step |-> "referenced", what |-> "depth limit"],
                      [step |-> "referenced", what |-> "depth limit"])
            /\ logs' = logs \cup {Log("error", "Error exporting referenced content types", "")}
            /\ UNCHANGED <<schemaFile, completed>>
       ELSE /\ schemaFile' = contentTypes
            /\ logs' = logs \cup
                 {Log("success", "Referenced content types export completed successfully", "")}
            /\ completed' = Append(completed, "referenced")
            /\ pc' = nextStep("referenced")
            /\ UNCHANGED <<raised, thrown>>
  /\ UNCHANGED <<resolverVars, cfg, query, stack, matched, loopIdx, parsedQuery, exportCalls,
                 exportedModules, started, contentTypes, currentBatch,
                 exportedContentTypeUIDs, iterationCount, dependencyVars, assetVars>>

\* lines 127 and 172-173: the loop is left (by break, or because the while
\* condition is false) and the accumulated list is written to schema.json
RefCT_Finish ==
  /\ \/ pc = "refct_write"
     \/ /\ pc = "refct_loop"
        /\ ~whileCondition(currentBatch, iterationCount, cfg.maxCTReferenceDepth)
  /\ loopExit' = IF pc = "refct_write" THEN loopExit
                 ELSE IF Len(currentBatch) = 0 THEN "empty_batch"
                 ELSE "cap"
  /\ schemaFile' = contentTypes
  /\ logs' = logs \cup
       {Log("success", "Referenced content types export completed successfully", "")}
  /\ completed' = Append(completed, "referenced")
  /\ pc' = nextStep("referenced")
  /\ UNCHANGED <<resolverVars, cfg, query, stack, matched, loopIdx, parsedQuery, exportCalls, exportedModules,
                 started, raised, thrown, contentTypes, currentBatch,
                 exportedContentTypeUIDs, iterationCount, dependencyVars, assetVars>>

(***************************************************************************)
(* QueryExporter.exportDependentModules                                    *)
(***************************************************************************)
\* Array.from(set)
ArrayFrom(S) == CHOOSE s \in [1..Cardinality(S) -> S] : Range(s) = S

\* what the stack may hold for a candidate extension UID: a plain extension,
\* a marketplace app, a record carrying only one of the two app attributes,
\* or no record at all
ExtensionKinds == {"extension", "app", "app_uid_only", "installation_only", "missing"}

InstallationUIDOf(uid) == IF uid = "ext_color" THEN "inst_color" ELSE "inst_editor"

ItemOfKind(uid, kind) ==
  ExtensionItem(uid,
                IF kind \in {"app", "app_uid_only"} THEN "app_1" ELSE "",
                IF kind \in {"app", "installation_only"} THEN InstallationUIDOf(uid) ELSE "")

\* what the extension query for the candidates may do: throw, return nothing,
\* or return the records the stack holds for them
LookupResponses(candidates) ==
  {[outcome |-> o, items |-> {}] : o \in {"throws", "nothing"}} \cup
  {[outcome |-> "items",
    items |-> {ItemOfKind(u, kinds[u]) : u \in {c \in candidates : kinds[c] # "missing"}}] :
     kinds \in [candidates -> ExtensionKinds]}

\* lines 184-188: extract the dependencies of the exported content types
ExtractDependencies ==
  /\ pc = "dependent"
  /\ started' = BeginStep("dependent")
  /\ \E ok \in BOOLEAN :
       IF ok
         THEN LET candidates == schemaDependencies(schemaFile).extensions IN
              \E response \in LookupResponses(candidates) :
                /\ dependencies' = extractDependencies(schemaFile, response)
                /\ lookup' = IF candidates = {} THEN NoLookup
                              ELSE [made |-> TRUE, candidates |-> candidates,
                                    outcome |-> response.outcome, items |-> response.items]
                /\ logs' = logs \cup
                     { Log("debug", "Starting dependent modules export", ""),
                       Log("info", "Starting export of dependent modules...", ""),
                       Log("debug", "Dependencies extracted successfully", "") } \cup
                     (IF candidates = {} THEN {}
                      ELSE IF response.outcome = "throws"
                        THEN {Log("error", "Error fetching extensions and marketplace apps", "")}
                      ELSE IF response.outcome = "nothing"
                        THEN {Log("warn", "No extensions found", "")}
                      ELSE {Log("info", "Identified marketplace apps and regular extensions", "")})
                /\ pc' = "dep_global_fields"
                /\ UNCHANGED <<raised, thrown>>
         ELSE /\ Reject([step |-> "dependent", what |-> "extractDependencies"],
                        rethrow([step |-> "dependent", what |-> "extractDependencies"]))
              /\ logs' = logs \cup
                   { Log("debug", "Starting dependent modules export", ""),
                     Log("info", "Starting export of dependent modules...", ""),
                     Log("error", "Error exporting dependent modules", "") }
              /\ UNCHANGED dependencyVars
  /\ UNCHANGED <<resolverVars, cfg, query, stack, matched, loopIdx, parsedQuery, exportCalls,
                 exportedModules, completed, closureVars, assetVars>>

\* the block without its "if (set.size > 0)"
ExportDependentAlways(here, next, module, filter, uidSet) ==
  /\ pc = here
  /\ \E ok \in BOOLEAN :
       IF ok
         THEN /\ exportModule(module, filter, ArrayFrom(uidSet), TRUE,
                              {Log("info", "Exporting dependent module...", module)})
              /\ pc' = next
              /\ UNCHANGED <<raised, thrown>>
         ELSE /\ exportModule(module, filter, ArrayFrom(uidSet), FALSE,
                              { Log("info", "Exporting dependent module...", module),
                                Log("error", "Error exporting dependent modules", "") })
              /\ Reject(ExportError("dependent", module),
                        rethrow(rethrow(ExportError("dependent", module))))
  /\ UNCHANGED <<resolverVars, cfg, query, stack, matched, loopIdx, parsedQuery, started,
                 completed, closureVars, dependencyVars, assetVars>>

\* one "if (set.size > 0) exportModule(module, { query })" block
ExportDependent(here, next, module, filter, uidSet) ==
  /\ pc = here
  /\ IF Cardinality(uidSet) > 0
       THEN \E ok \in BOOLEAN :
            IF ok
              THEN /\ exportModule(module, filter, ArrayFrom(uidSet), TRUE,
                                   {Log("info", "Exporting dependent module...", module)})
                   /\ pc' = next
                   /\ UNCHANGED <<raised, thrown>>
              ELSE /\ exportModule(module, filter, ArrayFrom(uidSet), FALSE,
                                   { Log("info", "Exporting dependent module...", module),
                                     Log("error", "Error exporting dependent modules", "") })
                   /\ Reject(ExportError("dependent", module),
                             rethrow(rethrow(ExportError("dependent", module))))
       ELSE /\ pc' = next
            /\ UNCHANGED <<exportCalls, exportedModules, logs, raised, thrown>>
  /\ UNCHANGED <<resolverVars, cfg, query, stack, matched, loopIdx, parsedQuery, started, completed,
                 closureVars, dependencyVars, assetVars>>

\* lines 190-203
ExportGlobalFields ==
  ExportDependent("dep_global_fields", "dep_extensions", "global-fields", "uid_in",
                  dependencies.globalFields)

\* lines 205-218
ExportExtensions ==
  ExportDependent("dep_extensions", "dep_marketplace_apps", "extensions", "uid_in",
                  dependencies.extensions)

\* lines 220-232
ExportMarketplaceApps ==
  ExportDependent("dep_marketplace_apps", "dep_taxonomies", "marketplace-apps",
                  "installation_uid_in", dependencies.marketplaceApps)

\* lines 234-247
ExportTaxonomies ==
  ExportDependent("dep_taxonomies", "dep_personalize", "taxonomies", "uid_in",
                  dependencies.taxonomies)

\* lines 249-252: personalize is exported unconditionally
ExportPersonalize ==
  /\ pc = "dep_personalize"
  /\ \E ok \in BOOLEAN :
       IF ok
         THEN /\ exportModule("personalize", "none", <<>>, TRUE,
                   {Log("success", "Dependent modules export completed successfully", "")})
              /\ completed' = Append(completed, "dependent")
              /\ pc' = nextStep("dependent")
              /\ UNCHANGED <<raised, thrown>>
         ELSE /\ exportModule("personalize", "none", <<>>, FALSE,
                   {Log("error", "Error exporting dependent modules", "")})
              /\ Reject(ExportError("dependent", "personalize"),
                        rethrow(rethrow(ExportError("dependent", "personalize"))))
              /\ UNCHANGED completed
  /\ UNCHANGED <<resolverVars, cfg, query, stack, matched, loopIdx, parsedQuery, started, closureVars,
                 dependencyVars, assetVars>>

(***************************************************************************)
(* QueryExporter.exportContentModules / exportEntries                      *)
(***************************************************************************)
\* lines 259-292: export the entries of every exported content type
ExportEntries ==
  /\ pc = "entries"
  /\ started' = BeginStep("entries")
  /\ \E ok \in BOOLEAN :
       IF ok
         THEN /\ exportModule("entries", "none", <<>>, TRUE,
                   { Log("debug", "Starting content modules export", ""),
                     Log("info", "Starting export of content modules...", ""),
                     Log("info", "Exporting entries...", ""),
                     Log("success", "Entries export completed successfully", "") })
              /\ completed' = Append(completed, "entries")
              /\ pc' = nextStep("entries")
              /\ UNCHANGED <<raised, thrown>>
         ELSE /\ exportModule("entries", "none", <<>>, FALSE,
                   { Log("debug", "Starting content modules export", ""),
                     Log("info", "Starting export of content modules...", ""),
                     Log("info", "Exporting entries...", ""),
                     Log("error", "Error exporting entries", ""),
                     Log("error", "Error exporting content modules", "") })
              /\ Reject(ExportError("entries", "entries"),
                        rethrow(rethrow(rethrow(ExportError("entries", "entries")))))
              /\ UNCHANGED completed
  /\ UNCHANGED <<resolverVars, cfg, query, stack, matched, loopIdx, parsedQuery, closureVars, dependencyVars,
                 assetVars>>

(***************************************************************************)
(* JSON objects on disk: a set of key/value entries, at most one per key   *)
(***************************************************************************)
ObjKeys(obj) == {e.key : e \in obj}

\* obj[key] = value
ObjPut(obj, key, value) ==
  {e \in obj : e.key # key} \cup {[key |-> key, value |-> value]}

\* Object.values of an object with integer keys: in ascending key order
RECURSIVE ObjValues(_)
ObjValues(obj) ==
  IF obj = {} THEN <<>>
  ELSE LET first == CHOOSE e \in obj : \A f \in obj : e.key <= f.key
       IN <<first.value>> \o ObjValues(obj \ {first})

(***************************************************************************)
(* QueryExporter.exportReferencedAssets                                    *)
(***************************************************************************)
\* line 321
batchSize == IF cfg.assetBatchSize # 0 THEN cfg.assetBatchSize ELSE DefaultBatchSize

\* line 337
totalBatches == CeilDiv(Len(assetUIDs), batchSize)

\* lines 342-344: assetUIDs.slice(start, end) of batch i (i counts from 0)
batchAssetUIDs(i) ==
  LET start == i * batchSize
      end == Min(start + batchSize, Len(assetUIDs))
  IN SubSeq(assetUIDs, start + 1, end)

\* assets.json as one export of the assets module writes it: an object with
\* numeric keys holding the records of the requested assets
ExportedAssets(uids) == {[key |-> k, value |-> uids[k]] : k \in 1..Len(uids)}

\* metadata.json as one export of the assets module writes it
ExportedMetadata(uids, metaKey) == {[key |-> metaKey, value |-> uids]}

\* the staging metadata replaced by the batch's metadata
mergeMetadataOverwrite(tempMetadata, currentMetadata) == currentMetadata

\* lines 378-384: keys the staging metadata lacks are copied from the batch
mergeMetadata(tempMetadata, currentMetadata) ==
  tempMetadata \cup {e \in currentMetadata : e.key \notin ObjKeys(tempMetadata)}

\* nextIndex without the + 1
nextIndexLength(tempAssets) == Cardinality(ObjKeys(tempAssets))

\* line 391: let nextIndex = Object.keys(tempAssets).length + 1
nextIndex(tempAssets) == Cardinality(ObjKeys(tempAssets)) + 1

\* lines 394-397: append the batch's values under consecutive keys
RECURSIVE putValues(_, _, _)
putValues(tempAssets, values, index) ==
  IF values = <<>> THEN tempAssets
  ELSE putValues(ObjPut(tempAssets, index, Head(values)), Tail(values), index + 1)

mergeAssets(tempAssets, currentAssets) ==
  putValues(tempAssets, ObjValues(currentAssets), nextIndex(tempAssets))

\* lines 311-323: extract the asset UIDs referenced by the exported entries
ExtractReferencedAssets ==
  /\ pc = "assets"
  /\ started' = BeginStep("assets")
  /\ \E n \in 0..MaxAssets :
       /\ assetUIDs' = [i \in 1..n |-> i]
       /\ IF n > 0
            THEN /\ logs' = logs \cup
                      { Log("info", "Starting export of referenced assets...", ""),
                        Log("debug", "Extracting referenced assets from entries", ""),
                        Log("info", "Found referenced assets to export", "") }
                 /\ pc' = IF n <= batchSize THEN "assets_single" ELSE "assets_batch"
                 /\ UNCHANGED completed
            ELSE /\ logs' = logs \cup
                      { Log("info", "Starting export of referenced assets...", ""),
                        Log("debug", "Extracting referenced assets from entries", ""),
                        Log("info", "No referenced assets found in entries", ""),
                        Log("info", "Content modules export completed successfully", ""),
                        Log("info", "Query-based export completed successfully!", "") }
                 /\ completed' = Append(completed, "assets")
                 /\ pc' = nextStep("assets")
  /\ batchIdx' = 0
  /\ UNCHANGED <<resolverVars, cfg, query, stack, matched, loopIdx, parsedQuery, exportCalls, exportedModules,
                 raised, thrown, closureVars, dependencyVars, assetFile, metadataFile,
                 tempFiles>>

\* lines 323-333: if (assetUIDs.length <= batchSize) export all of them at once
ExportAssetsAtOnce ==
  /\ pc = "assets_single"
  /\ \E ok \in BOOLEAN :
       IF ok
         THEN /\ exportModule("assets", "uid_in", assetUIDs, TRUE, {})
              /\ assetFile' = ExportedAssets(assetUIDs)
              /\ \E metaKey \in MetaKeys :
                   metadataFile' = ExportedMetadata(assetUIDs, metaKey)
              /\ pc' = "assets_batch"
              /\ UNCHANGED <<raised, thrown>>
         ELSE /\ exportModule("assets", "uid_in", assetUIDs, FALSE,
                   { Log("error", "Error exporting referenced assets", ""),
                     Log("error", "Error exporting content modules", "") })
              /\ Reject(ExportError("assets", "assets"),
                        rethrow(rethrow(rethrow(ExportError("assets", "assets")))))
              /\ UNCHANGED <<assetFile, metadataFile>>
  /\ UNCHANGED <<resolverVars, cfg, query, stack, matched, loopIdx, parsedQuery, started, completed,
                 closureVars, dependencyVars, assetUIDs, batchIdx, tempFiles>>

\* the error a failing fsUtil.readFile, writeFile or removeFile surfaces as
IOError(s) == [step |-> s, what |-> "file I/O"]

\* lines 341-408: one iteration of the batch loop: export the batch, read its
\* metadata.json and assets.json, merge them into the staging files.  The
\* export command may throw; so may the file operations of the merge, before
\* anything is staged or between the two staging writes.
ExportAssetBatch ==
  /\ pc = "assets_batch"
  /\ batchIdx < totalBatches
  /\ \E outcome \in {"ok", "export_fails", "merge_fails", "second_write_fails"} :
       IF outcome = "export_fails"
         THEN /\ exportModule("assets", "uid_in", batchAssetUIDs(batchIdx), FALSE,
                   { Log("info", "Processing assets in batches", ""),
                     Log("info", "Exporting batch...", ""),
                     Log("error", "Error exporting referenced assets", ""),
                     Log("error", "Error exporting content modules", "") })
              /\ Reject(ExportError("assets", "assets"),
                        rethrow(rethrow(rethrow(ExportError("assets", "assets")))))
              /\ UNCHANGED <<assetFile, metadataFile, tempFiles, batchIdx>>
         ELSE /\ assetFile' = ExportedAssets(batchAssetUIDs(batchIdx))
              /\ \E metaKey \in MetaKeys :
                   metadataFile' = ExportedMetadata(batchAssetUIDs(batchIdx), metaKey)
              /\ exportModule("assets", "uid_in", batchAssetUIDs(batchIdx), TRUE,
                   { Log("info", "Processing assets in batches", ""),
                     Log("info", "Exporting batch...", "") } \cup
                   (IF outcome # "ok"
                      THEN { Log("error", "Error exporting referenced assets", ""),
                             Log("error", "Error exporting content modules", "") }
                    ELSE IF batchIdx = 0
                      THEN {Log("info", "Initialized temporary files with first batch data", "")}
                    ELSE {Log("info", "Updated temporary files with batch data", "")}))
              /\ tempFiles' =
                   IF outcome = "merge_fails" THEN tempFiles
                   ELSE IF batchIdx = 0
                     THEN [exists |-> TRUE, metadata |-> metadataFile',
                           assets |-> IF outcome = "ok" THEN assetFile' ELSE {}]
                     ELSE [exists |-> TRUE,
                           metadata |-> mergeMetadata(tempFiles.metadata, metadataFile'),
                           assets |-> IF outcome = "ok"
                                        THEN mergeAssets(tempFiles.assets, assetFile')
                                        ELSE tempFiles.assets]
              /\ IF outcome = "ok"
                   THEN /\ batchIdx' = batchIdx + 1
                        /\ UNCHANGED <<pc, raised, thrown>>
                   ELSE /\ Reject(IOError("assets"),
                                  rethrow(rethrow(rethrow(IOError("assets")))))
                        /\ UNCHANGED batchIdx
  /\ UNCHANGED <<resolverVars, cfg, query, stack, matched, loopIdx, parsedQuery, started,
                 completed, closureVars, dependencyVars, assetUIDs>>

\* lines 411-414: the staging files are read, metadata.json is written
WriteFinalMetadata ==
  /\ pc = "assets_batch"
  /\ ~(batchIdx < totalBatches)
  /\ \E ok \in BOOLEAN :
       IF ok
         THEN /\ metadataFile' = tempFiles.metadata
              /\ pc' = "assets_write_assets"
              /\ UNCHANGED <<logs, raised, thrown>>
         ELSE /\ Reject(IOError("assets"), rethrow(rethrow(rethrow(IOError("assets")))))
              /\ logs' = logs \cup { Log("error", "Error exporting referenced assets", ""),
                                     Log("error", "Error exporting content modules", "") }
              /\ UNCHANGED metadataFile
  /\ UNCHANGED <<resolverVars, cfg, query, stack, matched, loopIdx, parsedQuery, exportCalls,
                 exportedModules, started, completed, closureVars, dependencyVars,
                 assetUIDs, batchIdx, assetFile, tempFiles>>

\* line 415: assets.json is written
WriteFinalAssets ==
  /\ pc = "assets_write_assets"
  /\ \E ok \in BOOLEAN :
       IF ok
         THEN /\ assetFile' = tempFiles.assets
              /\ logs' = logs \cup {Log("info", "Final data written back to original files", "")}
              /\ pc' = "assets_cleanup"
              /\ UNCHANGED <<raised, thrown>>
         ELSE /\ Reject(IOError("assets"), rethrow(rethrow(rethrow(IOError("assets")))))
              /\ logs' = logs \cup { Log("error", "Error exporting referenced assets", ""),
                                     Log("error", "Error exporting content modules", "") }
              /\ UNCHANGED assetFile
  /\ UNCHANGED <<resolverVars, cfg, query, stack, matched, loopIdx, parsedQuery, exportCalls,
                 exportedModules, started, completed, closureVars, dependencyVars,
                 assetUIDs, batchIdx, metadataFile, tempFiles>>

\* lines 419-424: the staging files are removed; the run is complete
RemoveTempFiles ==
  /\ pc = "assets_cleanup"
  /\ \E ok \in BOOLEAN :
       IF ok
         THEN /\ tempFiles' = NoTempFiles
              /\ logs' = logs \cup
                   { Log("info", "Temporary files cleaned up", ""),
                     Log("success", "Referenced assets exported successfully", ""),
                     Log("info", "Content modules export completed successfully", ""),
                     Log("info", "Query-based export completed successfully!", "") }
              /\ completed' = Append(completed, "assets")
              /\ pc' = nextStep("assets")
              /\ UNCHANGED <<raised, thrown>>
         ELSE /\ Reject(IOError("assets"), rethrow(rethrow(rethrow(IOError("assets")))))
              /\ logs' = logs \cup { Log("error", "Error exporting referenced assets", ""),
                                     Log("error", "Error exporting content modules", "") }
              /\ UNCHANGED <<tempFiles, completed>>
  /\ UNCHANGED <<resolverVars, cfg, query, stack, matched, loopIdx, parsedQuery, exportCalls,
                 exportedModules, started, closureVars, dependencyVars, assetUIDs, batchIdx,
                 assetFile, metadataFile>>

(***************************************************************************)
(* DependencyResolver (src/src/utils/dependency-resolver.ts)               *)
(***************************************************************************)
\* lines 14-105: the prerequisites of every module
MODULE_DEPENDENCIES(m) ==
  CASE m = "stack" -> <<>>
    [] m = "locales" -> <<"stack">>
    [] m = "environments" -> <<"stack", "locales">>
    [] m = "content-types" -> <<"stack", "locales", "environments">>
    [] m = "extensions" -> <<"stack", "locales", "environments", "content-types">>
    [] m = "global-fields" ->
         <<"stack", "locales", "environments", "content-types", "extensions">>
    [] m = "entries" ->
         <<"stack", "locales", "environments", "content-types", "extensions",
           "global-fields">>
    [] m = "assets" ->
         <<"stack", "locales", "environments", "content-types", "extensions",
           "global-fields", "entries">>
    [] m = "webhooks" ->
         <<"stack", "locales", "environments", "content-types", "extensions",
           "global-fields", "entries", "assets">>
    [] m = "workflows" ->
         <<"stack", "locales", "environments", "content-types", "extensions",
           "global-fields", "entries", "assets", "webhooks">>
    [] m = "custom-roles" ->
         <<"stack", "locales", "environments", "content-types", "extensions",
           "global-fields", "entries", "assets", "webhooks", "workflows">>
    [] m = "labels" ->
         <<"stack", "locales", "environments", "content-types", "extensions",
           "global-fields", "entries", "assets", "webhooks", "workflows",
           "custom-roles">>
    [] m = "taxonomies" ->
         <<"stack", "locales", "environments", "content-types", "extensions",
           "global-fields", "entries", "assets", "webhooks", "workflows",
           "custom-roles", "labels">>
    [] m = "marketplace-apps" ->
         <<"stack", "locales", "environments", "content-types", "extensions",
           "global-fields", "entries", "assets", "webhooks", "workflows",
           "custom-roles", "labels", "taxonomies">>
    [] m = "personalize" ->
         <<"stack", "locales", "environments", "content-types", "extensions",
           "global-fields", "entries", "assets", "webhooks", "workflows",
           "custom-roles", "labels", "taxonomies", "marketplace-apps">>

\* an export order listing the dependent modules in the order of the
\* configuration's "dependent" list, global fields before extensions
EXPORT_ORDER_GlobalFieldsFirst ==
  <<"stack", "locales", "environments", "content-types", "global-fields",
    "extensions", "entries", "assets", "webhooks", "workflows", "custom-roles",
    "labels", "taxonomies", "marketplace-apps", "personalize">>

\* lines 108-124
EXPORT_ORDER ==
  <<"stack", "locales", "environments", "content-types", "extensions",
    "global-fields", "entries", "assets", "webhooks", "workflows", "custom-roles",
    "labels", "taxonomies", "marketplace-apps", "personalize">>

\* the Modules type (src/commands/cm/stacks/export-query.ts:129-144)
Modules ==
  {"stack", "locales", "environments", "content-types", "global-fields", "extensions",
   "taxonomies", "entries", "assets", "webhooks", "workflows", "custom-roles", "labels",
   "marketplace-apps", "personalize"}

\* line 218: EXPORT_ORDER.filter((module) => modules.includes(module))
orderModules(ms) == FilterIn(EXPORT_ORDER, ms)

\* one call of orderModules
OrderModules ==
  /\ pc = "order"
  /\ orderedModules' = orderModules(modules)
  /\ pc' = "ordered"
  /\ UNCHANGED <<modules, sortVars, executorVars, flagVars, validatorVars, unitVars, cfg, query,
                 stack, matched, loopIdx, parsedQuery, exporterVars, stepVars, closureVars,
                 dependencyVars, assetVars>>

(***************************************************************************)
(* DependencyResolver.orderModulesByDependencies                           *)
(***************************************************************************)
\* the dependency tables the sort is explored with: the shipped one and
\* three edits of it that contain a cycle
DependencyMaps == {"shipped", "self_loop", "locales_need_entries", "stack_needs_personalize"}

\* MODULE_DEPENDENCIES[module] || [] under the table named map
DependenciesOf(map, m) ==
  CASE map = "self_loop" /\ m = "content-types" ->
         Append(MODULE_DEPENDENCIES(m), "content-types")
    [] map = "locales_need_entries" /\ m = "locales" ->
         Append(MODULE_DEPENDENCIES(m), "entries")
    [] map = "stack_needs_personalize" /\ m = "stack" ->
         Append(MODULE_DEPENDENCIES(m), "personalize")
    [] OTHER -> MODULE_DEPENDENCIES(m)

\* a sort that descends into every dependency, listed or not
followDependencyAlways(dep, list) == TRUE

\* line 564: if (modules.includes(dep))
followDependency(dep, list) == dep \in Range(list)

Frame(m, k) == [module |-> m, next |-> k]

\* lines 552-560: a call visit(m) made while the active calls are frames
visit(m, frames) ==
  IF m \in visiting
    THEN /\ sortError' = m
         /\ pc' = "sort_failed"
         /\ callStack' = frames
         /\ UNCHANGED <<visited, visiting, result>>
  ELSE IF m \in visited
    THEN /\ callStack' = frames
         /\ UNCHANGED <<pc, sortError, visited, visiting, result>>
  ELSE /\ visiting' = visiting \cup {m}
       /\ callStack' = Append(frames, Frame(m, 1))
       /\ UNCHANGED <<pc, sortError, visited, result>>

\* lines 573-577: the outer loop calls visit on the next module, or returns
Sort_NextModule ==
  /\ pc = "sort"
  /\ callStack = <<>>
  /\ sortSteps' = sortSteps + 1
  /\ IF sortIdx > Len(moduleList)
       THEN /\ pc' = "sorted"
            /\ UNCHANGED <<sortIdx, sortError, visited, visiting, result, callStack>>
       ELSE /\ sortIdx' = sortIdx + 1
            /\ visit(moduleList[sortIdx], <<>>)
  /\ UNCHANGED <<executorVars, flagVars, validatorVars, unitVars, moduleList, dependencyMap, modules, orderedModules, cfg, query, stack,
                 matched, loopIdx, parsedQuery, exporterVars, stepVars, closureVars,
                 dependencyVars, assetVars>>

\* lines 563-567: one iteration of the loop over the dependencies
Sort_Dependency ==
  /\ pc = "sort"
  /\ callStack # <<>>
  /\ LET top == callStack[Len(callStack)]
         deps == DependenciesOf(dependencyMap, top.module)
         advanced == [callStack EXCEPT ![Len(callStack)] = Frame(top.module, top.next + 1)]
     IN /\ top.next <= Len(deps)
        /\ IF followDependency(deps[top.next], moduleList)
             THEN visit(deps[top.next], advanced)
             ELSE /\ callStack' = advanced
                  /\ UNCHANGED <<pc, sortError, visited, visiting, result>>
  /\ sortSteps' = sortSteps + 1
  /\ UNCHANGED <<executorVars, flagVars, validatorVars, unitVars, moduleList, dependencyMap, sortIdx, modules, orderedModules, cfg, query,
                 stack, matched, loopIdx, parsedQuery, exporterVars, stepVars, closureVars,
                 dependencyVars, assetVars>>

\* lines 569-571: the dependencies are done, visit(module) returns
Sort_Return ==
  /\ pc = "sort"
  /\ callStack # <<>>
  /\ LET top == callStack[Len(callStack)]
     IN /\ top.next > Len(DependenciesOf(dependencyMap, top.module))
        /\ visiting' = visiting \ {top.module}
        /\ visited' = visited \cup {top.module}
        /\ result' = Append(result, top.module)
        /\ callStack' = SubSeq(callStack, 1, Len(callStack) - 1)
  /\ sortSteps' = sortSteps + 1
  /\ UNCHANGED <<executorVars, flagVars, validatorVars, unitVars, pc, moduleList, dependencyMap, sortIdx, sortError, modules, orderedModules,
                 cfg, query, stack, matched, loopIdx, parsedQuery, exporterVars, stepVars,
                 closureVars, dependencyVars, assetVars>>

(***************************************************************************)
(* ModuleExporter driven call by call                                      *)
(***************************************************************************)
\* the modules the exporters are called with
CalledModules == {"locales", "content-types", "entries"}

\* one exportModule(moduleName, options) call on the ModuleExporter, with or
\* without options.query; the export command completes or throws
ExportAnyModule ==
  /\ pc = "exporter"
  /\ Len(exportCalls) < MaxCalls
  /\ \E m \in CalledModules, filter \in {"none", "query"}, ok \in BOOLEAN :
       /\ exportModule(m, filter, <<>>, ok, {})
       /\ lastCall' = [method |-> "exportModule", module |-> m, ok |-> ok]
       /\ raised' = IF ok THEN NoError ELSE ExportError("exporter", m)
       /\ thrown' = IF ok THEN NoError ELSE rethrow(ExportError("exporter", m))
  /\ UNCHANGED <<flagVars, validatorVars, unitVars, pc, started, completed, modules, orderedModules,
                 sortVars, executorLedger,
                 executorCalls, cfg, query, stack, matched, loopIdx, parsedQuery,
                 closureVars, dependencyVars, assetVars>>

(***************************************************************************)
(* ModuleExecutor (src/src/core/module-executor.ts:8-260)                  *)
(***************************************************************************)
\* lines 25-37: the modules exportModule has a case for
ExecutorGeneralModules == {"stack", "locales", "environments"}

\* lines 83-104: the modules exportModuleWithQuery has a case for
ExecutorQueryModules ==
  {"content-types", "entries", "assets", "global-fields", "extensions", "taxonomies"}

\* lines 140-161: the modules exportModuleWithUIDs has a case for
ExecutorUIDModules ==
  {"content-types", "global-fields", "extensions", "taxonomies", "assets", "entries"}

\* lines 40, 118: this.exportedModules.push(moduleName)
push(ledger, m) == Append(ledger, m)

\* lines 169-171, 192-194: push unless the ledger includes the module
pushIfAbsent(ledger, m) == IF m \in Range(ledger) THEN ledger ELSE push(ledger, m)

ExecutorCall(method, m, ok) ==
  /\ executorCalls < MaxCalls
  /\ executorCalls' = executorCalls + 1
  /\ lastCall' = [method |-> method, module |-> m, ok |-> ok]

\* lines 18-46: exportModule(moduleName); a module without a case throws,
\* and so does a failing fetch or write
Executor_exportModule ==
  /\ pc = "executor"
  /\ \E m \in CalledModules, done \in BOOLEAN :
       LET ok == done /\ m \in ExecutorGeneralModules
       IN /\ ExecutorCall("exportModule", m, ok)
          /\ executorLedger' = IF ok THEN push(executorLedger, m) ELSE executorLedger
  /\ UNCHANGED <<flagVars, validatorVars, unitVars, pc, modules, orderedModules, sortVars, cfg, query,
                 stack, matched, loopIdx,
                 parsedQuery, exporterVars, stepVars, closureVars, dependencyVars, assetVars>>

\* lines 48-126: exportModuleWithQuery(moduleName, query)
Executor_exportModuleWithQuery ==
  /\ pc = "executor"
  /\ \E m \in CalledModules, queryable \in BOOLEAN, done \in BOOLEAN :
       LET ok == queryable /\ done /\ m \in ExecutorQueryModules
       IN /\ ExecutorCall("exportModuleWithQuery", m, ok)
          /\ executorLedger' = IF ok THEN push(executorLedger, m) ELSE executorLedger
  /\ UNCHANGED <<flagVars, validatorVars, unitVars, pc, modules, orderedModules, sortVars, cfg, query,
                 stack, matched, loopIdx,
                 parsedQuery, exporterVars, stepVars, closureVars, dependencyVars, assetVars>>

\* lines 128-179: exportModuleWithUIDs(moduleName, uids); an empty uids
\* returns at once
Executor_exportModuleWithUIDs ==
  /\ pc = "executor"
  /\ \E m \in CalledModules, noUIDs \in BOOLEAN, done \in BOOLEAN :
       LET ok == noUIDs \/ (done /\ m \in ExecutorUIDModules)
       IN /\ ExecutorCall("exportModuleWithUIDs", m, ok)
          /\ executorLedger' = IF ok /\ ~noUIDs THEN pushIfAbsent(executorLedger, m)
                                                ELSE executorLedger
  /\ UNCHANGED <<flagVars, validatorVars, unitVars, pc, modules, orderedModules, sortVars, cfg, query,
                 stack, matched, loopIdx,
                 parsedQuery, exporterVars, stepVars, closureVars, dependencyVars, assetVars>>

\* lines 181-203: exportEntriesForContentTypes(contentTypeUIDs)
Executor_exportEntriesForContentTypes ==
  /\ pc = "executor"
  /\ \E ok \in BOOLEAN :
       /\ ExecutorCall("exportEntriesForContentTypes", "entries", ok)
       /\ executorLedger' = IF ok THEN pushIfAbsent(executorLedger, "entries")
                                  ELSE executorLedger
  /\ UNCHANGED <<flagVars, validatorVars, unitVars, pc, modules, orderedModules, sortVars, cfg, query,
                 stack, matched, loopIdx,
                 parsedQuery, exporterVars, stepVars, closureVars, dependencyVars, assetVars>>

(***************************************************************************)
(* The validators applied to parsed queries                                *)
(***************************************************************************)
\* the keys the explored filters are built from
FilterKeys == {"title", "bad_field", "$and", "$in", "$badop"}

\* the filters nested at most d levels deep with one key per object
RECURSIVE Filters(_)
Filters(d) ==
  IF d = 0 THEN {Num}
  ELSE Filters(d - 1)
       \cup {Obj(<<Entry(k, v)>>) : k \in FilterKeys, v \in Filters(d - 1)}
       \cup {Arr(<<v>>) : v \in Filters(d - 1)}

\* the filters with two keys
PairFilters ==
  {Obj(<<Entry(k[1], v[1]), Entry(k[2], v[2])>>) :
     k \in {kk \in FilterKeys \X FilterKeys : kk[1] # kk[2]},
     v \in Filters(1) \X Filters(1)}

\* an array of maxArraySize + 1 numbers (its elements are scalars and are
\* not listed)
LongArray == Node("array", <<>>, maxArraySize + 1)

\* leaf wrapped in n objects, each under the supported operator $and
RECURSIVE Chain(_, _)
Chain(n, leaf) == IF n = 0 THEN leaf ELSE Obj(<<Entry("$and", Chain(n - 1, leaf))>>)

\* module queries of supported operators only, nested up to MaxChainDepth
\* objects deep around a number, a null, a short array or a long array
DeepFilters ==
  {Chain(n, leaf) : n \in 1..MaxChainDepth, leaf \in {Num, Null, Arr(<<Num>>), LongArray}}

Query(mods) == Obj(<<Entry("modules", mods)>>)

\* the parsed values the validators are explored on
Documents ==
  { Null, Num, Str, Arr(<<>>), Arr(<<Str>>), Obj(<<>>), Obj(<<Entry("title", Num)>>),
    Query(Null), Query(Str), Query(Arr(<<>>)), Query(Arr(<<Str>>)), Query(Obj(<<>>)),
    Query(Obj(<<Entry("content-types", Null)>>)),
    Query(Obj(<<Entry("content-types", Str)>>)),
    Query(Obj(<<Entry("entries", Obj(<<>>))>>)),
    Query(Obj(<<Entry("content-types", Obj(<<>>)), Entry("assets", Obj(<<>>))>>)),
    Query(Obj(<<Entry("assets", Obj(<<>>)), Entry("entries", Obj(<<>>))>>)) }
  \cup {Query(Obj(<<Entry("content-types", f)>>)) :
          f \in Filters(MaxQueryNesting) \cup PairFilters \cup DeepFilters}

\* query-handler.ts:134-155: QueryParser.validate(query)
Validate ==
  /\ pc = "validate"
  /\ verdict' = validateVerdict(Inspect(document))
  /\ pc' = "validate_strict"
  /\ UNCHANGED <<document, strictVerdict, modules, orderedModules, sortVars, executorVars,
                 flagVars, unitVars, cfg, query, stack, matched, loopIdx, parsedQuery, exporterVars,
                 stepVars, closureVars, dependencyVars, assetVars>>

\* part_002:43-72: the strict QueryParser.validate(query)
StrictValidate ==
  /\ pc = "validate_strict"
  /\ strictVerdict' = strictValidate(document)
  /\ pc' = "validated"
  /\ UNCHANGED <<document, verdict, modules, orderedModules, sortVars, executorVars,
                 flagVars, unitVars, cfg, query, stack, matched, loopIdx, parsedQuery, exporterVars,
                 stepVars, closureVars, dependencyVars, assetVars>>

(***************************************************************************)
(* Specifications                                                          *)
(***************************************************************************)
\* state of a freshly constructed QueryExporter
Fresh ==
  /\ matched = {}
  /\ loopIdx = 1
  /\ parsedQuery = <<>>
  /\ exportCalls = <<>>
  /\ exportedModules = <<>>
  /\ logs = {}
  /\ started = <<>>
  /\ completed = <<>>
  /\ raised = NoError
  /\ thrown = NoError
  /\ schemaFile = <<>>
  /\ contentTypes = <<>>
  /\ currentBatch = <<>>
  /\ exportedContentTypeUIDs = {}
  /\ iterationCount = 0
  /\ loopExit = "none"
  /\ dependencies = NoDependencies
  /\ lookup = NoLookup
  /\ modules = {}
  /\ orderedModules = <<>>
  /\ assetUIDs = <<>>
  /\ batchIdx = 0
  /\ assetFile = {}
  /\ metadataFile = {}
  /\ tempFiles = NoTempFiles
  /\ Idle

\* the state in which one helper is exercised on its own: no run of execute()
\* is under way
Detached ==
  /\ cfg \in [maxCTReferenceDepth : {MaxDepth}, assetBatchSize : {0}]
  /\ flags = NoFlags
  /\ queryMetaFile = NoFile
  /\ query = ValidQuery
  /\ stack = ChainStack
  /\ matched = {}
  /\ loopIdx = 1
  /\ parsedQuery = <<>>
  /\ exportCalls = <<>>
  /\ exportedModules = <<>>
  /\ logs = {}
  /\ started = <<>>
  /\ completed = <<>>
  /\ raised = NoError
  /\ thrown = NoError
  /\ schemaFile = <<>>
  /\ contentTypes = <<>>
  /\ currentBatch = <<>>
  /\ exportedContentTypeUIDs = {}
  /\ iterationCount = 0
  /\ loopExit = "none"
  /\ dependencies = NoDependencies
  /\ lookup = NoLookup
  /\ modules = {}
  /\ orderedModules = <<>>
  /\ assetUIDs = <<>>
  /\ batchIdx = 0
  /\ assetFile = {}
  /\ metadataFile = {}
  /\ tempFiles = NoTempFiles
  /\ IdleSorter
  /\ IdleExecutor
  /\ IdleValidator

\* what an action of a helper exercised on its own leaves alone
programVars ==
  <<cfg, query, stack, matched, loopIdx, parsedQuery, exporterVars, stepVars,
    closureVars, dependencyVars, assetVars, modules, orderedModules, sortVars,
    executorVars, flagVars, validatorVars>>

\* config-handler.ts:14-16: --skip-references, --skip-dependencies and
\* --secured-assets as given on the command line
Flags ==
  [skipReferences : BOOLEAN, skipDependencies : BOOLEAN, securedAssets : {FALSE}]

\* A whole run of execute(), with the default asset batch size
Init ==
  /\ cfg \in [maxCTReferenceDepth : 1..MaxDepth, assetBatchSize : {0}]
  /\ flags \in Flags
  /\ query \in QueryInputs
  /\ stack \in RunStacks
  /\ pc = "parse"
  /\ Fresh

Next ==
  \/ Parse
  \/ ExportGeneralModules
  \/ ExportQueriedModule
  \/ ReadContentTypes
  \/ RefCT_Begin
  \/ RefCT_Iterate
  \/ RefCT_Finish
  \/ ExtractDependencies
  \/ ExportGlobalFields
  \/ ExportExtensions
  \/ ExportMarketplaceApps
  \/ ExportTaxonomies
  \/ ExportPersonalize
  \/ ExportEntries
  \/ ExtractReferencedAssets
  \/ ExportAssetsAtOnce
  \/ ExportAssetBatch
  \/ WriteFinalMetadata
  \/ WriteFinalAssets
  \/ RemoveTempFiles

Spec == Init /\ [][Next]_vars

\* exportReferencedContentTypes on every reference graph: the exporter is
\* invoked on the content types a query export left in schema.json
InitClosure ==
  /\ cfg \in [maxCTReferenceDepth : 1..MaxDepth, assetBatchSize : {0}]
  /\ flags = NoFlags
  /\ query = ValidQuery
  /\ stack \in AllStacks
  /\ pc = "referenced"
  /\ loopIdx = 1
  /\ parsedQuery = <<>>
  /\ exportCalls = <<>>
  /\ exportedModules = <<>>
  /\ logs = {}
  /\ started = <<>>
  /\ completed = <<>>
  /\ raised = NoError
  /\ thrown = NoError
  /\ matched \in (SUBSET ContentTypeUIDs) \ {{}}
  /\ schemaFile = ExportedContentTypes(matched)
  /\ contentTypes = <<>>
  /\ currentBatch = <<>>
  /\ exportedContentTypeUIDs = {}
  /\ iterationCount = 0
  /\ loopExit = "none"
  /\ dependencies = NoDependencies
  /\ lookup = NoLookup
  /\ modules = {}
  /\ orderedModules = <<>>
  /\ assetUIDs = <<>>
  /\ batchIdx = 0
  /\ assetFile = {}
  /\ metadataFile = {}
  /\ tempFiles = NoTempFiles
  /\ Idle

NextClosure ==
  \/ RefCT_Begin
  \/ RefCT_Iterate
  \/ RefCT_Finish

SpecClosure == InitClosure /\ [][NextClosure]_vars

\* exportReferencedAssets for every configured batch size
InitAssets ==
  /\ cfg \in [maxCTReferenceDepth : {MaxDepth}, assetBatchSize : 0..MaxBatchSize]
  /\ flags = NoFlags
  /\ query = ValidQuery
  /\ stack = ChainStack
  /\ pc = "assets"
  /\ Fresh

NextAssets ==
  \/ ExtractReferencedAssets
  \/ ExportAssetsAtOnce
  \/ ExportAssetBatch
  \/ WriteFinalMetadata
  \/ WriteFinalAssets
  \/ RemoveTempFiles

SpecAssets == InitAssets /\ [][NextAssets]_vars

\* the fields the content types of a dependency run may carry
DependencyFields ==
  << GlobalField("gf_seo", <<>>),
     ExtensionField("ext_color"),
     GroupField(<<ExtensionField("ext_editor")>>),
     BlocksField(<< <<TaxonomyField(<<"tax_topics">>)>> >>) >>

\* the schema made of the fields at the indices in I, in order
SchemaOf(I) ==
  LET F[i \in 0..Len(DependencyFields)] ==
        IF i = 0 THEN <<>>
        ELSE IF i \in I THEN Append(F[i - 1], DependencyFields[i])
        ELSE F[i - 1]
  IN F[Len(DependencyFields)]

\* schema.json as steps 1-3 may leave it: blog with the fields at the indices
\* in I, alone or followed by an author whose schema uses an extension and a
\* taxonomy
DependencySchemaFile(I, withAuthor) ==
  <<[uid |-> "blog", schema |-> SchemaOf(I)]>> \o
  (IF withAuthor THEN <<[uid |-> "author", schema |-> SchemaOf({2, 4})]>> ELSE <<>>)

\* exportDependentModules on schemas with every combination of dependencies
InitDependencies ==
  /\ cfg \in [maxCTReferenceDepth : {MaxDepth}, assetBatchSize : {0}]
  /\ flags = NoFlags
  /\ query = ValidQuery
  /\ stack = ChainStack
  /\ pc = "dependent"
  /\ \E I \in SUBSET (1..Len(DependencyFields)), withAuthor \in BOOLEAN :
       /\ schemaFile = DependencySchemaFile(I, withAuthor)
       /\ matched = UIDsOf(schemaFile)
  /\ loopIdx = 1
  /\ parsedQuery = <<>>
  /\ exportCalls = <<>>
  /\ exportedModules = <<>>
  /\ logs = {}
  /\ started = <<>>
  /\ completed = <<>>
  /\ raised = NoError
  /\ thrown = NoError
  /\ contentTypes = <<>>
  /\ currentBatch = <<>>
  /\ exportedContentTypeUIDs = {}
  /\ iterationCount = 0
  /\ loopExit = "none"
  /\ dependencies = NoDependencies
  /\ lookup = NoLookup
  /\ modules = {}
  /\ orderedModules = <<>>
  /\ assetUIDs = <<>>
  /\ batchIdx = 0
  /\ assetFile = {}
  /\ metadataFile = {}
  /\ tempFiles = NoTempFiles
  /\ Idle

NextDependencies ==
  \/ ExtractDependencies
  \/ ExportGlobalFields
  \/ ExportExtensions
  \/ ExportMarketplaceApps
  \/ ExportTaxonomies
  \/ ExportPersonalize

SpecDependencies == InitDependencies /\ [][NextDependencies]_vars

\* orderModules on every subset of the modules
InitResolver ==
  /\ cfg \in [maxCTReferenceDepth : {MaxDepth}, assetBatchSize : {0}]
  /\ flags = NoFlags
  /\ query = ValidQuery
  /\ stack = ChainStack
  /\ pc = "order"
  /\ matched = {}
  /\ loopIdx = 1
  /\ parsedQuery = <<>>
  /\ exportCalls = <<>>
  /\ exportedModules = <<>>
  /\ logs = {}
  /\ started = <<>>
  /\ completed = <<>>
  /\ raised = NoError
  /\ thrown = NoError
  /\ schemaFile = <<>>
  /\ contentTypes = <<>>
  /\ currentBatch = <<>>
  /\ exportedContentTypeUIDs = {}
  /\ iterationCount = 0
  /\ loopExit = "none"
  /\ dependencies = NoDependencies
  /\ lookup = NoLookup
  /\ modules \in SUBSET Modules
  /\ orderedModules = <<>>
  /\ assetUIDs = <<>>
  /\ batchIdx = 0
  /\ assetFile = {}
  /\ metadataFile = {}
  /\ tempFiles = NoTempFiles
  /\ Idle

NextResolver == OrderModules

SpecResolver == InitResolver /\ [][NextResolver]_vars

\* the modules the sorted lists are drawn from
SortModules == {"stack", "locales", "content-types", "entries", "personalize"}

\* every list of at most MaxSortLen of them
ModuleLists == UNION {[1..n -> SortModules] : n \in 0..MaxSortLen}

\* orderModulesByDependencies on every short module list, under the shipped
\* dependency table and the cyclic ones
InitSort ==
  /\ cfg \in [maxCTReferenceDepth : {MaxDepth}, assetBatchSize : {0}]
  /\ flags = NoFlags
  /\ query = ValidQuery
  /\ stack = ChainStack
  /\ pc = "sort"
  /\ matched = {}
  /\ loopIdx = 1
  /\ parsedQuery = <<>>
  /\ exportCalls = <<>>
  /\ exportedModules = <<>>
  /\ logs = {}
  /\ started = <<>>
  /\ completed = <<>>
  /\ raised = NoError
  /\ thrown = NoError
  /\ schemaFile = <<>>
  /\ contentTypes = <<>>
  /\ currentBatch = <<>>
  /\ exportedContentTypeUIDs = {}
  /\ iterationCount = 0
  /\ loopExit = "none"
  /\ dependencies = NoDependencies
  /\ lookup = NoLookup
  /\ modules = {}
  /\ orderedModules = <<>>
  /\ assetUIDs = <<>>
  /\ batchIdx = 0
  /\ assetFile = {}
  /\ metadataFile = {}
  /\ tempFiles = NoTempFiles
  /\ moduleList \in ModuleLists
  /\ dependencyMap \in DependencyMaps
  /\ visited = {}
  /\ visiting = {}
  /\ result = <<>>
  /\ callStack = <<>>
  /\ sortIdx = 1
  /\ sortSteps = 0
  /\ sortError = NoModule
  /\ IdleExecutor
  /\ IdleSidecar
  /\ IdleValidator
  /\ IdleUnits

NextSort == Sort_NextModule \/ Sort_Dependency \/ Sort_Return

SpecSort == InitSort /\ [][NextSort]_vars

\* a freshly constructed ModuleExporter, called in every way
InitExporter ==
  /\ cfg \in [maxCTReferenceDepth : {MaxDepth}, assetBatchSize : {0}]
  /\ flags = NoFlags
  /\ query = ValidQuery
  /\ stack = ChainStack
  /\ pc = "exporter"
  /\ Fresh

NextExporter == ExportAnyModule

SpecExporter == InitExporter /\ [][NextExporter]_vars

\* a freshly constructed ModuleExecutor, called in every way
InitExecutor ==
  /\ cfg \in [maxCTReferenceDepth : {MaxDepth}, assetBatchSize : {0}]
  /\ flags = NoFlags
  /\ query = ValidQuery
  /\ stack = ChainStack
  /\ pc = "executor"
  /\ Fresh

NextExecutor ==
  \/ Executor_exportModule
  \/ Executor_exportModuleWithQuery
  \/ Executor_exportModuleWithUIDs
  \/ Executor_exportEntriesForContentTypes

SpecExecutor == InitExecutor /\ [][NextExecutor]_vars

\* both validators on every explored parsed value
InitValidator ==
  /\ cfg \in [maxCTReferenceDepth : {MaxDepth}, assetBatchSize : {0}]
  /\ flags = NoFlags
  /\ query = ValidQuery
  /\ stack = ChainStack
  /\ pc = "validate"
  /\ matched = {}
  /\ loopIdx = 1
  /\ parsedQuery = <<>>
  /\ exportCalls = <<>>
  /\ exportedModules = <<>>
  /\ logs = {}
  /\ started = <<>>
  /\ completed = <<>>
  /\ raised = NoError
  /\ thrown = NoError
  /\ schemaFile = <<>>
  /\ contentTypes = <<>>
  /\ currentBatch = <<>>
  /\ exportedContentTypeUIDs = {}
  /\ iterationCount = 0
  /\ loopExit = "none"
  /\ dependencies = NoDependencies
  /\ lookup = NoLookup
  /\ modules = {}
  /\ orderedModules = <<>>
  /\ assetUIDs = <<>>
  /\ batchIdx = 0
  /\ assetFile = {}
  /\ metadataFile = {}
  /\ tempFiles = NoTempFiles
  /\ IdleSorter
  /\ IdleExecutor
  /\ IdleSidecar
  /\ document \in Documents
  /\ verdict = NotValidated
  /\ strictVerdict = NotValidated
  /\ IdleUnits

NextValidator == Validate \/ StrictValidate

SpecValidator == InitValidator /\ [][NextValidator]_vars

(***************************************************************************)
(* Properties                                                              *)
(***************************************************************************)
\* the $in lists of the fetches issued by the referenced-content-type loop,
\* in order
FetchRequests ==
  LET fetches == SelectSeq(exportCalls,
                   LAMBDA c : c.module = "content-types" /\ c.filter = "uid_in")
  IN [i \in 1..Len(fetches) |-> Range(fetches[i].uids)]

\* the $in lists of the exports of the assets module, in order
AssetRequests ==
  LET exports == SelectSeq(exportCalls, LAMBDA c : c.module = "assets")
  IN [i \in 1..Len(exports) |-> exports[i].uids]

\* content types of the stack that a content type references
ReferencedFrom(u) == Range(getReferencedContentTypes(stack[u])) \cap ContentTypeUIDs

\* the content types of the stack reachable from S through reference fields
RECURSIVE ReachableFrom(_)
ReachableFrom(S) ==
  LET step == S \cup UNION {ReferencedFrom(u) : u \in S}
  IN IF step = S THEN S ELSE ReachableFrom(step)

\* UIDs the loop would fetch next from its current batch
PendingReferences ==
  filterNew(extractReferencedContentTypes(currentBatch),
            exportedContentTypeUIDs \cup UIDsOf(currentBatch))

HasMutualReferences ==
  /\ "author" \in ReferencedFrom("blog")
  /\ "blog" \in ReferencedFrom("author")

\* C1: on every reference graph, mutual references included, the loop runs
\* at most maxCTReferenceDepth iterations (and so issues at most that many
\* fetches).
C1_LoopWithinMaxDepth ==
  /\ iterationCount <= cfg.maxCTReferenceDepth
  /\ Len(FetchRequests) <= cfg.maxCTReferenceDepth

\* a loop over mutually referencing content types has run and ended
C1_Witness ==
  /\ HasMutualReferences
  /\ "blog" \in matched
  /\ loopExit # "none"
  /\ iterationCount >= 2

\* C2: when the loop ends otherwise than by the iteration cap, schema.json
\* holds every content type of the stack reachable through reference fields
\* from the content types the query matched.
C2_ClosurePersisted ==
  (pc = "dependent" /\ loopExit \in {"fixed_point", "empty_batch"})
    => ReachableFrom(matched) \subseteq UIDsOf(schemaFile)

\* blog references author, author references nothing: {blog, author}
C2_Witness ==
  /\ pc = "dependent"
  /\ loopExit = "fixed_point"
  /\ matched = {"blog"}
  /\ ReferencedFrom("blog") = {"author"}
  /\ ReferencedFrom("author") = {}
  /\ UIDsOf(schemaFile) = {"blog", "author"}

C4_CapIsNotAnError ==
  loopExit = "cap" =>
    /\ raised.step # "referenced"
    /\ "referenced" \in Range(completed)
    /\ UIDsOf(schemaFile) =
         matched \cup UNION {FetchRequests[i] \cap ContentTypeUIDs :
                               i \in 1..Len(FetchRequests)}
    /\ schemaFile = contentTypes
    /\ (pc = "dependent" \/ "dependent" \in Range(started))

\* the cap stopped the loop while new references were pending, and the
\* dependent-module step has begun
C4_Witness ==
  /\ loopExit = "cap"
  /\ Len(PendingReferences) > 0
  /\ "dependent" \in Range(started)

\* C5: whenever the iteration cap stops the loop, a warning has been logged.
C5_WarningAtCap ==
  loopExit = "cap" => \E l \in logs : l[1] = "warn"

\* C6: the steps start in the order parse, general, queried, referenced,
\* dependent, entries, assets, and a step starts only when every earlier
\* step has completed.
C6_StepsInOrder ==
  /\ IsPrefix(started, StepOrder)
  /\ IsPrefix(completed, StepOrder)
  /\ Len(completed) <= Len(started)
  /\ Len(started) <= Len(completed) + 1

\* a run in which all seven steps completed
C6_Witness ==
  /\ pc = "done"
  /\ completed = StepOrder

\* C7: an error raised in a step is the error execute() rejects with, no
\* step after the failing one has started, and nothing runs afterwards.
C7_ErrorAbortsRun ==
  [][ /\ (raised' # NoError =>
            /\ thrown' = raised'
            /\ pc' = "rejected"
            /\ started'[Len(started')] = raised'.step
            /\ (raised'.step = "entries" =>
                  \A i \in 1..Len(exportCalls') : exportCalls'[i].module # "assets"))
      /\ (thrown # NoError => UNCHANGED vars) ]_vars

\* the entries export failed
C7_Witness ==
  /\ raised = ExportError("entries", "entries")
  /\ thrown = raised
  /\ pc = "rejected"

\* what the claim calls a query that parses and passes validation
QueryParsesAndValidates(q) ==
  /\ q.text_ok
  /\ q.type = "object"
  /\ q.has_modules
  /\ q.modules_is_object
  /\ Len(q.keys) > 0
  /\ \A i \in 1..Len(q.keys) : q.keys[i] \in Range(QueryableModules)

\* C8: a query that cannot be parsed or fails validation aborts the run with
\* that error before any module export is invoked.
C8_BadQueryAbortsBeforeExport ==
  (pc # "parse" /\ ~QueryParsesAndValidates(query)) =>
    /\ pc = "rejected"
    /\ thrown.step = "parse"
    /\ thrown = raised
    /\ started = <<"parse">>
    /\ exportCalls = <<>>
    /\ exportedModules = <<>>

\* a query naming a module that is not queryable was rejected
C8_Witness ==
  /\ pc = "rejected"
  /\ query.text_ok
  /\ query.keys = <<"entries">>
  /\ thrown.what = "Module is not queryable"

\* C9: N > 0 asset UIDs with batch size B are exported in exactly ceil(N/B)
\* exports of the assets module, each UID in exactly one of them and none of
\* them requesting more than B UIDs.
C9_ExactlyCeilBatches ==
  (pc = "done" /\ Len(assetUIDs) > 0) =>
    /\ Len(AssetRequests) = CeilDiv(Len(assetUIDs), batchSize)
    /\ \A i \in 1..Len(AssetRequests) : Len(AssetRequests[i]) <= batchSize
    /\ \A u \in Range(assetUIDs) :
         Cardinality({i \in 1..Len(AssetRequests) : u \in Range(AssetRequests[i])}) = 1

\* number of assets whose batches have been merged into the staging files
MergedCount == Min(batchIdx * batchSize, Len(assetUIDs))

\* C10: after a successful batched export of N distinct assets the asset-data
\* file holds exactly N entries under N distinct keys, one per asset; while
\* the batches are merged, the staging file holds exactly the entries of the
\* batches merged so far.
C10_MergedAssetsComplete ==
  /\ (tempFiles.exists =>
        /\ Cardinality(tempFiles.assets) = MergedCount
        /\ Cardinality(ObjKeys(tempFiles.assets)) = MergedCount
        /\ {e.value : e \in tempFiles.assets} = Range(SubSeq(assetUIDs, 1, MergedCount)))
  /\ ((pc = "done" /\ Len(assetUIDs) > 0) =>
        /\ Cardinality(assetFile) = Len(assetUIDs)
        /\ Cardinality(ObjKeys(assetFile)) = Len(assetUIDs)
        /\ {e.value : e \in assetFile} = Range(assetUIDs))

\* three batches (two full, one partial) were exported and merged
C10_Witness ==
  /\ pc = "done"
  /\ totalBatches = 3
  /\ Len(assetUIDs) = 3 * batchSize - 1
  /\ batchSize >= 2
  /\ Cardinality(assetFile) = Len(assetUIDs)

\* C11: after a successful batched asset export the final metadata file holds
\* every metadata record every batch wrote; none from a later batch is missing.
C11_MetadataComplete ==
  (pc = "done" /\ Len(assetUIDs) > 0) =>
    \A u \in Range(assetUIDs) : \E e \in metadataFile : u \in Range(e.value)

\* C12: when the export or the merge of batch i fails, the error is rethrown
\* to the caller, no later batch is exported, and what the staging files held
\* of the batches merged before i is still there.
C12_FailedBatchKeepsMerged ==
  [][ (pc = "assets_batch" /\ batchIdx < totalBatches /\ pc' = "rejected") =>
        /\ raised' # NoError
        /\ thrown' = raised'
        /\ batchIdx' = batchIdx
        /\ Len(exportCalls') <= Len(exportCalls) + 1
        /\ (tempFiles.exists => tempFiles'.exists)
        /\ tempFiles.metadata \subseteq tempFiles'.metadata
        /\ tempFiles.assets \subseteq tempFiles'.assets
        /\ \A k \in 1..MergedCount : \E e \in tempFiles'.assets : e.value = assetUIDs[k] ]_vars

\* the merge of the third batch failed between its two staging writes, the
\* first two batches being staged
C12_Witness ==
  /\ pc = "rejected"
  /\ raised = IOError("assets")
  /\ thrown = raised
  /\ batchIdx = 2
  /\ batchIdx < totalBatches
  /\ Cardinality(tempFiles.assets) = MergedCount
  /\ Cardinality(tempFiles.metadata) = 2

\* C13: once all batches are merged, metadata.json and assets.json are never
\* observed one in its merged state and the other not, and no staging file is
\* left after a successful run.
C13_AtomicSwap ==
  /\ (Len(assetUIDs) > 0 /\ batchIdx = totalBatches /\ tempFiles.exists) =>
        ((metadataFile = tempFiles.metadata) <=> (assetFile = tempFiles.assets))
  /\ (pc = "done" => ~tempFiles.exists)

\* C14: while the referenced-content-type loop runs, and after a fetch in it
\* has failed, schema.json holds every content type obtained so far.
C14_FetchedSurvivesCrash ==
  (\/ pc \in {"refct_loop", "refct_write"}
   \/ (pc = "rejected" /\ raised.step = "referenced")) =>
    UIDsOf(contentTypes) \subseteq UIDsOf(schemaFile)

\* config/index.ts:13: the modules of the dependent step
DependentModules ==
  {"global-fields", "extensions", "marketplace-apps", "taxonomies", "personalize"}

\* the UIDs extractDependencies discovered for a dependent module
DiscoveredFor(m) ==
  CASE m = "global-fields" -> dependencies.globalFields
    [] m = "extensions" -> dependencies.extensions
    [] m = "marketplace-apps" -> dependencies.marketplaceApps
    [] m = "taxonomies" -> dependencies.taxonomies

\* the export invocations for module m
CallsFor(m) == {i \in 1..Len(exportCalls) : exportCalls[i].module = m}

\* the run is past the block of exportDependentModules that handles m
PastBlockOf(m) ==
  \/ "dependent" \in Range(completed)
  \/ pc = "dep_personalize"
  \/ (pc = "dep_taxonomies" /\ m # "taxonomies")
  \/ (pc = "dep_marketplace_apps" /\ m \in {"global-fields", "extensions"})
  \/ (pc = "dep_extensions" /\ m = "global-fields")

\* C15: global-fields, extensions, marketplace-apps and taxonomies are each
\* exported exactly when the set of UIDs discovered for them is non-empty, and
\* then once, for exactly those UIDs.
C15_ExportedIffDiscovered ==
  \A m \in {"global-fields", "extensions", "marketplace-apps", "taxonomies"} :
    /\ \A i \in CallsFor(m) :
          /\ DiscoveredFor(m) # {}
          /\ Range(exportCalls[i].uids) = DiscoveredFor(m)
    /\ Cardinality(CallsFor(m)) <= 1
    /\ (PastBlockOf(m) /\ DiscoveredFor(m) # {}) => CallsFor(m) # {}

\* global fields and taxonomies were discovered and exported, no extension
\* or marketplace app was discovered or exported
C15_Witness ==
  /\ "dependent" \in Range(completed)
  /\ dependencies.globalFields = {"gf_seo"}
  /\ dependencies.taxonomies = {"tax_topics"}
  /\ dependencies.extensions = {}
  /\ dependencies.marketplaceApps = {}
  /\ CallsFor("global-fields") # {}
  /\ CallsFor("taxonomies") # {}
  /\ CallsFor("extensions") = {}
  /\ CallsFor("marketplace-apps") = {}

\* C16: when no global field, extension, marketplace app or taxonomy is
\* discovered, the dependent-module step invokes no module export.
C16_NoDependenciesNoExport ==
  ("dependent" \in Range(completed) /\ dependencies = NoDependencies) =>
    \A i \in 1..Len(exportCalls) : exportCalls[i].module \notin DependentModules

\* C17: every candidate extension UID is still in the result after the
\* disambiguation, as a plain extension or through its installation UID as a
\* marketplace app.
C17_NoCandidateDropped ==
  lookup.made =>
    \A u \in lookup.candidates :
      \/ u \in dependencies.extensions
      \/ InstallationUIDOf(u) \in dependencies.marketplaceApps

\* C18: when the disambiguation fetch throws or returns nothing, extraction
\* succeeds with every candidate as a plain extension and no marketplace app,
\* and the run goes on to the exports.
C18_FetchFailureFallsBack ==
  (lookup.made /\ lookup.outcome \in {"throws", "nothing"}) =>
    /\ dependencies.extensions = lookup.candidates
    /\ dependencies.marketplaceApps = {}
    /\ pc # "dependent"
    /\ raised.what # "extractDependencies"
    /\ (PastBlockOf("extensions") =>
          \E i \in CallsFor("extensions") : Range(exportCalls[i].uids) = lookup.candidates)

\* the fetch threw for two candidates; both were exported as extensions and
\* the dependent step completed
C18_Witness ==
  /\ lookup.made
  /\ lookup.outcome = "throws"
  /\ lookup.candidates = {"ext_color", "ext_editor"}
  /\ "dependent" \in Range(completed)
  /\ \E i \in CallsFor("extensions") : Range(exportCalls[i].uids) = lookup.candidates
  /\ CallsFor("marketplace-apps") = {}

\* C19: a returned record with both an app UID and an installation UID puts
\* its installation UID in the marketplace-app set and its UID not in the
\* extension set; any other returned record puts its UID in the extension set
\* and nothing in the marketplace-app set.
C19_RecordsClassified ==
  (lookup.made /\ lookup.outcome = "items") =>
    \A item \in lookup.items :
      IF item.app_uid # "" /\ item.app_installation_uid # ""
        THEN /\ item.app_installation_uid \in dependencies.marketplaceApps
             /\ item.uid \notin dependencies.extensions
        ELSE /\ item.uid \in dependencies.extensions
             /\ item.app_installation_uid \notin dependencies.marketplaceApps
             /\ InstallationUIDOf(item.uid) \notin dependencies.marketplaceApps

\* the lookup returned a marketplace app and a record carrying only an
\* installation UID
C19_Witness ==
  /\ lookup.made
  /\ lookup.outcome = "items"
  /\ lookup.items = {ItemOfKind("ext_color", "app"), ItemOfKind("ext_editor", "installation_only")}
  /\ dependencies.marketplaceApps = {"inst_color"}
  /\ dependencies.extensions = {"ext_editor"}

\* C20: orderModules(S) is a permutation of S in which every prerequisite of
\* a module that is itself in S comes before the module.
C20_OrderIsTopological ==
  pc = "ordered" =>
    /\ Range(orderedModules) = modules
    /\ Len(orderedModules) = Cardinality(modules)
    /\ \A i \in 1..Len(orderedModules) :
         \A p \in Range(MODULE_DEPENDENCIES(orderedModules[i])) \cap modules :
           \E j \in 1..(i - 1) : orderedModules[j] = p

\* four modules given out of order were ordered
C20_Witness ==
  /\ pc = "ordered"
  /\ modules = {"personalize", "global-fields", "extensions", "stack"}
  /\ orderedModules = <<"stack", "extensions", "global-fields", "personalize">>

(***************************************************************************)
(* Properties of orderModulesByDependencies (SpecSort)                     *)
(***************************************************************************)
\* the listed modules that m names as dependencies
ListedDependencies(m) ==
  {d \in Range(DependenciesOf(dependencyMap, m)) : d \in Range(moduleList)}

RECURSIVE DependencyClosure(_)
DependencyClosure(S) ==
  LET more == S \cup UNION {ListedDependencies(m) : m \in S}
  IN IF more = S THEN S ELSE DependencyClosure(more)

\* m depends on itself through listed modules
OnCycle(m) == m \in DependencyClosure(ListedDependencies(m))

HasCycle == \E m \in Range(moduleList) : OnCycle(m)

RECURSIVE SumOver(_, _)
SumOver(S, f) ==
  IF S = {} THEN 0
  ELSE LET x == CHOOSE x \in S : TRUE
       IN f[x] + SumOver(S \ {x}, f)

\* one step per outer iteration and the final return, and for every listed
\* module at most one step per dependency and one return
SortStepBound ==
  Len(moduleList) + 1 +
  SumOver(Range(moduleList),
          [m \in Range(moduleList) |-> Len(DependenciesOf(dependencyMap, m)) + 1])

\* C21: the sort fails exactly when the listed modules contain a dependency
\* cycle; the error then names a module that is in progress and lies on a
\* cycle.  Under the shipped table the sort never fails, and every sort ends
\* within a bounded number of steps without getting stuck.
C21_CircularErrorExact ==
  /\ (pc = "sort_failed") <=> (sortError # NoModule)
  /\ pc = "sort_failed" => sortError \in visiting /\ OnCycle(sortError)
  /\ pc = "sorted" => ~HasCycle
  /\ dependencyMap = "shipped" => pc # "sort_failed"
  /\ sortSteps <= SortStepBound
  /\ pc = "sort" => ENABLED NextSort

\* entries and locales were listed under a table in which each needs the
\* other: the descent from entries came back to entries
C21_Witness ==
  /\ pc = "sort_failed"
  /\ dependencyMap = "locales_need_entries"
  /\ moduleList = <<"entries", "locales">>
  /\ sortError = "entries"
  /\ visiting = {"entries", "locales"}

(***************************************************************************)
(* Properties of the exported-modules ledgers (SpecExecutor, SpecExporter) *)
(***************************************************************************)
NoDuplicates(ledger) == Cardinality(Range(ledger)) = Len(ledger)

\* C22: after any sequence of export calls the ledger of the ModuleExecutor
\* holds every module name at most once, and a call only ever appends to it.
C22_LedgerDeduplicated ==
  /\ [](NoDuplicates(executorLedger))
  /\ [][IsPrefix(executorLedger, executorLedger')]_vars

\* C23: a failed exportModule rejects with the error the export command
\* threw and leaves the ledger as it was; a successful one leaves the module
\* recorded and the earlier entries in place.
C23_FailureNotRecorded ==
  [][ pc = "exporter" =>
        IF lastCall'.ok
          THEN /\ lastCall'.module \in Range(exportedModules')
               /\ IsPrefix(exportedModules, exportedModules')
               /\ thrown' = NoError
          ELSE /\ thrown' = ExportError("exporter", lastCall'.module)
               /\ thrown' = raised'
               /\ exportedModules' = exportedModules ]_vars

\* the sequence of the unit test: a success, a failure of a
\* module never exported, a success
C23_Witness ==
  /\ pc = "exporter"
  /\ Len(exportCalls) = 3
  /\ exportCalls[1].module = "locales"
  /\ exportCalls[2].module = "entries"
  /\ exportCalls[3].module = "content-types"
  /\ exportedModules = <<"locales", "content-types">>
  /\ lastCall.ok

(***************************************************************************)
(* Properties of the command-line flags and the run's outcome (Spec)       *)
(***************************************************************************)
\* C24: with --skip-references the run issues no fetch of referenced content
\* types, and the content types on disk at the end are only those the query
\* matched.
C24_SkipReferencesHonoured ==
  flags.skipReferences =>
    /\ Len(FetchRequests) = 0
    /\ pc = "done" => UIDsOf(schemaFile) \subseteq matched

\* C25: with --skip-dependencies the run invokes no export of global-fields,
\* extensions or taxonomies.
C25_SkipDependenciesHonoured ==
  flags.skipDependencies =>
    \A i \in 1..Len(exportCalls) :
      exportCalls[i].module \notin {"global-fields", "extensions", "taxonomies"}

\* C26: a run that completed has _query-meta.json on disk, holding the
\* query's modules, the exported modules and the three flags.
C26_SidecarWritten ==
  pc = "done" =>
    queryMetaFile =
      writeQueryMetadata([query |-> parsedQuery, exportedModules |-> exportedModules,
                          flags |-> flags], NoFile)

\* C27: a query that matches no content type does not end the run: the
\* process is not terminated and no error is raised by the empty result.
C27_EmptyResultContinues ==
  ("queried" \in Range(completed) /\ schemaFile = <<>>) =>
    /\ pc # "exited"
    /\ raised.step \notin {"queried", "referenced"}

(***************************************************************************)
(* Properties of the query validators (SpecValidator)                      *)
(***************************************************************************)
\* the value is a JSON object (not an array, not null)
IsMap(v) == v.kind = "object"

\* the modules map of the document, if it has one
ModulesOf(doc) == Get(doc, "modules")

\* a non-null object whose modules map is non-empty and names only
\* queryable modules
Acceptable(doc) ==
  /\ IsMap(doc)
  /\ IsMap(ModulesOf(doc))
  /\ Len(ModulesOf(doc).entries) > 0
  /\ \A i \in 1..Len(ModulesOf(doc).entries) :
       ModulesOf(doc).entries[i].key \in Range(QueryableModules)

\* the modules of the document outside the whitelist
Unlisted(doc) ==
  IF IsMap(doc) /\ IsMap(ModulesOf(doc))
    THEN Range(Keys(ModulesOf(doc))) \ Range(QueryableModules)
    ELSE {}

\* C28: validate accepts a query exactly when it is a non-null object whose
\* modules map is non-empty and has only whitelisted keys; a query with a
\* module outside the whitelist is rejected with a message that quotes such
\* a module and lists the whitelist.
C28_ValidateAcceptsExactly ==
  verdict # NotValidated =>
    /\ (verdict = Accepted) <=> Acceptable(document)
    /\ Unlisted(document) # {} =>
         /\ verdict.what = "Module is not queryable"
         /\ verdict.name \in Unlisted(document)
         /\ verdict.listed = QueryableModules

\* a query for content types and assets was rejected naming assets
C28_Witness ==
  /\ verdict.what = "Module is not queryable"
  /\ verdict.name = "assets"
  /\ Len(Keys(ModulesOf(document))) = 2
  /\ Keys(ModulesOf(document))[1] = "content-types"

\* every key of an object in v, at any nesting level (array indexes are not
\* keys)
RECURSIVE KeysWithin(_)
KeysWithin(v) ==
  (IF v.kind = "object" THEN Range(Keys(v)) ELSE {})
  \cup UNION {KeysWithin(v.entries[i].value) : i \in 1..Len(v.entries)}

\* the content-types query of a document that passes the structural checks
ModuleQuery(doc) == Get(ModulesOf(doc), "content-types")

UnsupportedOperators(doc) ==
  {k \in KeysWithin(ModuleQuery(doc)) :
     IsOperatorKey(k) /\ k \notin Range(supportedOperators)}

C30_EveryFieldSupported ==
  (strictVerdict = Accepted) =>
    \A k \in KeysWithin(ModuleQuery(document)) :
      ~IsOperatorKey(k) => k \in Range(supportedFields)

\* the depth of the deepest object or array of v, v itself being at depth d
\* (-1 if v holds none)
RECURSIVE DeepestContainer(_, _)
DeepestContainer(v, d) ==
  IF ~IsObject(v) THEN -1
  ELSE LET below == {DeepestContainer(v.entries[i].value, d + 1) : i \in 1..Len(v.entries)}
                      \cup {d}
       IN CHOOSE m \in below : \A x \in below : x <= m

\* v holds an array of more than maxArraySize elements
RECURSIVE HasLongArray(_)
HasLongArray(v) ==
  \/ v.kind = "array" /\ v.length > maxArraySize
  \/ \E i \in 1..Len(v.entries) : HasLongArray(v.entries[i].value)

TooComplex(doc) == DeepestContainer(doc, 0) > maxQueryDepth \/ HasLongArray(doc)

ComplexityErrors ==
  {"Query depth exceeds maximum allowed depth", "Array size exceeds maximum allowed size"}

\* the module queries of the document pass the operator and field checks
ModuleQueriesValid(doc) ==
  /\ Acceptable(doc)
  /\ \A i \in 1..Len(ModulesOf(doc).entries) :
       validateModuleQuery(ModulesOf(doc).entries[i].key,
                           ModulesOf(doc).entries[i].value) = Accepted

\* C31: a query that passes the other checks is rejected with one of the two
\* complexity errors exactly when an object or array of it lies deeper than
\* maxQueryDepth (the query itself being at depth 0) or one of its arrays has
\* more than maxArraySize elements.
C31_ComplexityRejectedExactly ==
  (strictVerdict # NotValidated /\ ModuleQueriesValid(document)) =>
    ((strictVerdict.what \in ComplexityErrors) <=> TooComplex(document))

(***************************************************************************)
(* The two schema traversals on nested schemas                             *)
(***************************************************************************)
\* most fields wrapped around the field of interest
MaxNesting == 3

Wrappers == {"group", "global_field", "blocks"}
Leaves == {"reference", "assets_only", "rich_text", "global_field", "extension", "taxonomy"}

\* a schema is described by the field of interest and the fields wrapped
\* around it, outermost first
FieldPaths ==
  [wrappers : UNION {[1..n -> Wrappers] : n \in 0..MaxNesting}, leaf : Leaves]

PlainField == Field("text", <<>>, <<>>, <<>>, FALSE, FALSE)

\* the field of interest; a taxonomy field also lists an element that has no
\* taxonomy_uid
LeafField(leaf) ==
  CASE leaf = "reference" -> RefField(<<SysAssets, "author">>)
    [] leaf = "assets_only" -> RefField(<<SysAssets>>)
    [] leaf = "rich_text" -> Field("json", <<"category", SysAssets>>, <<>>, <<>>, TRUE, TRUE)
    [] leaf = "global_field" -> GlobalField("gf_seo", <<>>)
    [] leaf = "extension" -> ExtensionField("ext_color")
    [] leaf = "taxonomy" -> TaxonomyField(<<"tax_topics", "">>)

\* the schema a path describes: a group and a global field hold a plain
\* field before the inner schema, a modular-blocks field holds a block of a
\* plain field before the block of the inner schema
RECURSIVE BuildSchema(_, _)
BuildSchema(wrappers, leaf) ==
  IF wrappers = <<>> THEN <<PlainField, LeafField(leaf)>>
  ELSE LET inner == BuildSchema(Tail(wrappers), leaf)
       IN CASE Head(wrappers) = "group" -> <<GroupField(<<PlainField>> \o inner)>>
            [] Head(wrappers) = "global_field" ->
                 <<GlobalField("gf_wrapper", <<PlainField>> \o inner)>>
            [] Head(wrappers) = "blocks" -> <<BlocksField(<< <<PlainField>>, inner >>)>>

\* part_001:115-166: getReferencedContentTypes(schema)
GetReferencedContentTypes ==
  /\ pc = "schema"
  /\ extraction' =
       [extraction EXCEPT
          !.referenced =
             getReferencedContentTypes(BuildSchema(fieldPath.wrappers, fieldPath.leaf))]
  /\ pc' = "referenced"
  /\ UNCHANGED <<programVars, concurrentVars, fieldPath, stringVars, fileVars, pageVars>>

\* part_004:139-173: traverseSchemaForDependencies(schema, dependencies) on
\* empty sets
TraverseSchemaForDependencies ==
  /\ pc = "referenced"
  /\ LET deps == traverseSchemaForDependencies(
                   BuildSchema(fieldPath.wrappers, fieldPath.leaf), EmptyDependencies)
     IN extraction' =
          [extraction EXCEPT !.globalFields = deps.globalFields,
                             !.extensions = deps.extensions,
                             !.taxonomies = deps.taxonomies]
  /\ pc' = "traversed"
  /\ UNCHANGED <<programVars, concurrentVars, fieldPath, stringVars, fileVars, pageVars>>

InitSchema ==
  /\ Detached
  /\ pc = "schema"
  /\ fieldPath \in FieldPaths
  /\ extraction = NoExtraction
  /\ IdleString
  /\ IdleFiles
  /\ IdlePages
  /\ IdleConcurrent

NextSchema == GetReferencedContentTypes \/ TraverseSchemaForDependencies

SpecSchema == InitSchema /\ [][NextSchema]_vars

\* the content types the field of interest refers to
TargetsOf(leaf) ==
  CASE leaf = "reference" -> {"author"}
    [] leaf = "rich_text" -> {"category"}
    [] OTHER -> {}

DependenciesOfLeaf(leaf) ==
  [globalFields |-> IF leaf = "global_field" THEN {"gf_seo"} ELSE {},
   extensions |-> IF leaf = "extension" THEN {"ext_color"} ELSE {},
   taxonomies |-> IF leaf = "taxonomy" THEN {"tax_topics"} ELSE {}]

\* C36: whatever groups and modular blocks the field is nested in,
\* traverseSchemaForDependencies reports the global field, the extension and
\* the taxonomies it carries.
C36_NestedDependenciesReported ==
  (pc = "traversed" /\ Range(fieldPath.wrappers) \subseteq {"group", "blocks"}) =>
    /\ DependenciesOfLeaf(fieldPath.leaf).globalFields \subseteq extraction.globalFields
    /\ DependenciesOfLeaf(fieldPath.leaf).extensions \subseteq extraction.extensions
    /\ DependenciesOfLeaf(fieldPath.leaf).taxonomies \subseteq extraction.taxonomies

\* a taxonomy field inside a modular block inside a group inside a modular
\* block is reported
C36_Witness ==
  /\ pc = "traversed"
  /\ fieldPath = [wrappers |-> <<"blocks", "group", "blocks">>, leaf |-> "taxonomy"]
  /\ extraction.taxonomies = {"tax_topics"}

(***************************************************************************)
(* AssetReferenceHandler.extractAssetUIDsFromString                        *)
(***************************************************************************)
\* most pieces of the text of one entry field
MaxTokens == 4

\* referenced-asset-handler.ts:120: the capture group that holds the UID
\* when the URL pattern with the regional prefixes is used
assetUIDMatchIndex == 6
\* referenced-asset-handler.ts:116: the same for the NON_PROD pattern
assetUIDMatchIndexNonProd == 3

\* The text of a field is a sequence of pieces:
\*   marker  <img asset_uid="uid"
\*   url     https://<prefix>images.contentstack.io/v3/assets/<stack>/<uid>/v1/file.jpg
\*   quote   a double quote
\*   text    characters other than a double quote
Piece(kind, uid, prefix) == [kind |-> kind, uid |-> uid, prefix |-> prefix]
Marker(uid) == Piece("marker", uid, "")
Url(uid, prefix) == Piece("url", uid, prefix)
QuotePiece == Piece("quote", "", "")
TextPiece == Piece("text", "", "")

Pieces ==
  {Marker("img_1"), Marker("img_2"), Url("url_1", ""), Url("url_2", "eu-"),
   QuotePiece, TextPiece}

Texts == UNION {[1..n -> Pieces] : n \in 0..MaxTokens}

\* JSON.stringify({field: text}): the text between the quotes of a string
\* value, every double quote of it escaped as \"
stringify(text) == <<QuotePiece>> \o text \o <<QuotePiece>>

\* the piece holds a double quote character
HasQuote(piece) == piece.kind \in {"quote", "marker"}

\* lines 104-109: every match of /<img asset_uid=\\"([^"]+)\\"/g, group 1
htmlAssetMatches(pieces) ==
  LET F[i \in 0..Len(pieces)] ==
        IF i = 0 THEN <<>>
        ELSE IF pieces[i].kind = "marker" /\ pieces[i].uid # ""
          THEN AddToSet(F[i - 1], pieces[i].uid)
          ELSE F[i - 1]
  IN F[Len(pieces)]

\* the capture groups of a match of the URL pattern that starts at a url
\* piece: line 119 numbers the whole URL 1, the host 2, the regional prefix
\* 3 (empty if there is none), the domain 4 and the path segments 5 to 8;
\* line 115 numbers the whole URL 1 and the path segments 2 to 5
captureGroups(env, piece) ==
  IF env = "NON_PROD"
    THEN <<"url", "stack", piece.uid, "v1", "file">>
    ELSE <<"url", piece.prefix \o "images", piece.prefix, "io", "stack", piece.uid, "v1",
           "file">>

\* line 126: match[assetUIDMatchIndex]
matchedUID(env, piece) ==
  captureGroups(env, piece)[IF env = "NON_PROD" THEN assetUIDMatchIndexNonProd
                            ELSE assetUIDMatchIndex]

\* the first piece after position i that holds a double quote, 0 if none
NextQuote(pieces, i) ==
  LET later == {k \in (i + 1)..Len(pieces) : HasQuote(pieces[k])}
  IN IF later = {} THEN 0 ELSE CHOOSE k \in later : \A l \in later : k <= l

\* lines 124-130: the exec loop of the URL pattern from piece i on.  A match
\* starts at a url piece; its last group (.*?)(?=") is lazy and runs up to
\* the first double quote after the URL, and the next search starts there.
\* Without a double quote after it a URL does not match.
RECURSIVE urlAssetMatches(_, _, _, _)
urlAssetMatches(env, pieces, i, found) ==
  IF i > Len(pieces) THEN found
  ELSE IF pieces[i].kind # "url" THEN urlAssetMatches(env, pieces, i + 1, found)
  ELSE IF NextQuote(pieces, i) = 0 THEN found
  ELSE urlAssetMatches(env, pieces, NextQuote(pieces, i),
                       IF matchedUID(env, pieces[i]) # ""
                         THEN AddToSet(found, matchedUID(env, pieces[i]))
                         ELSE found)

\* referenced-asset-handler.ts:100-133
extractAssetUIDsFromString(env, pieces) ==
  urlAssetMatches(env, pieces, 1, htmlAssetMatches(pieces))

ExtractAssetUIDsFromString ==
  /\ pc = "string"
  /\ assetMatches' = extractAssetUIDsFromString(environment, stringify(content))
  /\ pc' = "scanned"
  /\ UNCHANGED <<programVars, concurrentVars, schemaVars, fileVars, pageVars, environment, content>>

InitString ==
  /\ Detached
  /\ pc = "string"
  /\ environment \in {"PROD", "NON_PROD"}
  /\ content \in Texts
  /\ assetMatches = <<>>
  /\ IdleSchema
  /\ IdleFiles
  /\ IdlePages
  /\ IdleConcurrent

NextString == ExtractAssetUIDsFromString

SpecString == InitString /\ [][NextString]_vars

\* the identifiers of the markers and of the URLs of a text
MarkersOf(text) == {text[i].uid : i \in {j \in 1..Len(text) : text[j].kind = "marker"}}
UrlsOf(text) == {text[i].uid : i \in {j \in 1..Len(text) : text[j].kind = "url"}}

\* C33: extractAssetUIDsFromString returns the identifiers of the markers
\* and of the URLs of the serialized text, each once, in whatever order and
\* however often they occur.
C33_EveryIdentifierOnce ==
  pc = "scanned" =>
    /\ Range(assetMatches) = MarkersOf(content) \cup UrlsOf(content)
    /\ NoDuplicates(assetMatches)

(***************************************************************************)
(* AssetReferenceHandler.extractReferencedAssets                           *)
(***************************************************************************)
\* most .json files under the entries directory
MaxFiles == 3

\* a .json file: its base name, what fsUtil.readFile does with it ("object":
\* returns the parsed object, "throws": the file cannot be read or parsed,
\* "not_object": returns nothing or a value that is not an object) and the
\* text of the entry field it holds
EntryFile(name, read, text) == [name |-> name, read |-> read, text |-> text]

EntryFileKinds ==
  {EntryFile("entries.json", "object", <<Marker("img_1")>>),
   EntryFile("entries.json", "object", <<Url("url_1", ""), QuotePiece, Marker("img_2")>>),
   EntryFile("entries.json", "throws", <<Marker("img_2")>>),
   EntryFile("entries.json", "not_object", <<>>),
   EntryFile("index.json", "object", <<Url("url_2", "eu-")>>)}

EntryFileLists == UNION {[1..n -> EntryFileKinds] : n \in 0..MaxFiles}

\* the error leaves processSingleFile and reaches the catch of
\* extractReferencedAssets, which returns []
uidsAfterUncaughtFailure(found) == <<>>

\* lines 90-93: the catch of processSingleFile returns 0 and leaves the set
\* as it is
uidsAfterFailedFile(found) == found

\* referenced-asset-handler.ts:64-94: processSingleFile(filePath, globalAssetUIDs)
processSingleFile(env, file, found) ==
  IF file.name = "index.json" THEN found
  ELSE IF file.read = "throws" THEN uidsAfterFailedFile(found)
  ELSE IF file.read = "not_object" THEN found
  ELSE AddAllToSet(found, extractAssetUIDsFromString(env, stringify(file.text)))

\* lines 30-33: the entries directory does not exist
EntriesDirMissing ==
  /\ pc = "no_entries_dir"
  /\ globalAssetUIDs' = <<>>
  /\ pc' = "extracted"
  /\ UNCHANGED <<programVars, concurrentVars, schemaVars, stringVars, pageVars, entryFiles, fileIdx, warnings>>

\* lines 43-46: one iteration of the loop over jsonFiles
ProcessSingleFile ==
  /\ pc = "files"
  /\ fileIdx <= Len(entryFiles)
  /\ globalAssetUIDs' = processSingleFile(environment, entryFiles[fileIdx], globalAssetUIDs)
  /\ warnings' =
       IF entryFiles[fileIdx].name # "index.json" /\ entryFiles[fileIdx].read = "throws"
         THEN warnings \cup {fileIdx} ELSE warnings
  /\ fileIdx' = fileIdx + 1
  /\ UNCHANGED <<programVars, concurrentVars, schemaVars, stringVars, pageVars, entryFiles, pc>>

\* lines 48-54: return Array.from(globalAssetUIDs)
ReturnReferencedAssets ==
  /\ pc = "files"
  /\ fileIdx > Len(entryFiles)
  /\ pc' = "extracted"
  /\ UNCHANGED <<programVars, concurrentVars, schemaVars, stringVars, pageVars, fileVars>>

InitFiles ==
  /\ Detached
  /\ \/ pc = "files" /\ entryFiles \in EntryFileLists
     \/ pc = "no_entries_dir" /\ entryFiles = <<>>
  /\ fileIdx = 1
  /\ globalAssetUIDs = <<>>
  /\ warnings = {}
  /\ IdleSchema
  /\ IdleString
  /\ IdlePages
  /\ IdleConcurrent

NextFiles == EntriesDirMissing \/ ProcessSingleFile \/ ReturnReferencedAssets

SpecFiles == InitFiles /\ [][NextFiles]_vars

\* the files that are read and hold an object
ReadableFiles ==
  {i \in 1..Len(entryFiles) :
     entryFiles[i].name # "index.json" /\ entryFiles[i].read = "object"}

\* the entry files that cannot be read or parsed
FailedFiles ==
  {i \in 1..Len(entryFiles) :
     entryFiles[i].name # "index.json" /\ entryFiles[i].read = "throws"}

\* C34: every entry file that cannot be read or parsed is named by a warning,
\* and the extraction returns the asset UIDs found in all readable files.
C34_FailedFileSkipped ==
  pc = "extracted" =>
    /\ warnings = FailedFiles
    /\ Range(globalAssetUIDs) =
         UNION {Range(extractAssetUIDsFromString(environment, stringify(entryFiles[i].text))) :
                  i \in ReadableFiles}

\* a file that cannot be parsed lies between two readable files, and the
\* UIDs of both are returned
C34_Witness ==
  /\ pc = "extracted"
  /\ Len(entryFiles) = 3
  /\ FailedFiles = {2}
  /\ ReadableFiles = {1, 3}
  /\ warnings = {2}
  /\ Range(globalAssetUIDs) = {"img_1", "url_1", "img_2"}

(***************************************************************************)
(* The paginated fetch loops                                               *)
(***************************************************************************)
\* most items the stack holds
MaxTotal == 5
\* largest page size (stands for queryConfig.defaultLimit || 100)
MaxLimit == 3

\* The loops: "executor" is ModuleExecutor.exportModuleWithQuery and
\* fetchEntriesForContentType, whose request carries query, skip and limit;
\* "resolver" is DependencyResolver.analyzeContentTypeDependencies, whose
\* request also carries include_count: true.  The stack holds the items
\* 1..total; it reports their count whenever it is asked to.
Fetchers ==
  {f \in [loop : {"executor", "resolver"}, total : 0..MaxTotal, limit : 1..MaxLimit,
          reportsCount : BOOLEAN] :
     f.loop = "resolver" => f.reportsCount}

\* the response of the stack to a request with the given skip and limit;
\* hasCount tells whether the response carries a count
find(f, sk, limit) ==
  [items |-> [i \in 1..(Min(sk + limit, f.total) - Min(sk, f.total)) |-> sk + i],
   hasCount |-> f.reportsCount,
   count |-> IF f.reportsCount THEN f.total ELSE 0]

\* a loop that moves on by one item
nextSkipByOne(sk, limit) == sk + 1

\* module-executor.ts:109 and 223, dependency-resolver.ts:395: skip += limit
nextSkip(sk, limit) == sk + limit

\* module-executor.ts:111 and 225: if (skip >= response.count) break;
\* dependency-resolver.ts:396: hasMore = skip < response.count.  A
\* comparison with an absent count is false.
hasMore(loop, sk, response) ==
  IF loop = "resolver" THEN response.hasCount /\ sk < response.count
  ELSE ~(response.hasCount /\ sk >= response.count)

\* one iteration of the loop: the request, the push and the test
FetchPage ==
  /\ pc = "fetching"
  /\ LET response == find(fetcher, skip, fetcher.limit)
     IN /\ requests' = Append(requests, skip)
        /\ IF Len(response.items) > 0
             THEN /\ collected' = collected \o response.items
                  /\ skip' = nextSkip(skip, fetcher.limit)
                  /\ pc' = IF hasMore(fetcher.loop, skip', response)
                             THEN "fetching" ELSE "fetched"
             ELSE /\ pc' = "fetched"
                  /\ UNCHANGED <<collected, skip>>
  /\ UNCHANGED <<programVars, concurrentVars, schemaVars, stringVars, fileVars, fetcher>>

InitPages ==
  /\ Detached
  /\ pc = "fetching"
  /\ fetcher \in Fetchers
  /\ skip = 0
  /\ requests = <<>>
  /\ collected = <<>>
  /\ IdleSchema
  /\ IdleString
  /\ IdleFiles
  /\ IdleConcurrent

NextPages == FetchPage

SpecPages == InitPages /\ [][NextPages]_vars

\* the loop awaits every response and the stack answers every request
SpecPagesFair == SpecPages /\ WF_vars(FetchPage)

\* the requests so far are at skip = 0, limit, 2 * limit, ...; none but the
\* first is at or beyond a reported count; when the loop has ended every
\* item has been collected exactly once
PagesInOrder ==
  /\ \A i \in 1..Len(requests) : requests[i] = (i - 1) * fetcher.limit
  /\ fetcher.reportsCount => \A i \in 2..Len(requests) : requests[i] < fetcher.total
  /\ pc = "fetched" => collected = [i \in 1..fetcher.total |-> i]

\* C35: a paginated fetch requests the pages at skip = 0, limit, 2 * limit,
\* ..., requests none at or beyond the count the stack reports, ends, and has
\* then collected every item exactly once.
C35_PaginatedFetchComplete == []PagesInOrder /\ <>(pc = "fetched")

\* five items fetched in pages of two by three requests
C35_Witness ==
  /\ pc = "fetched"
  /\ fetcher.total = 5
  /\ fetcher.limit = 2
  /\ fetcher.reportsCount
  /\ requests = <<0, 2, 4>>
  /\ collected = <<1, 2, 3, 4, 5>>

\* C37: no module is exported before a module that MODULE_DEPENDENCIES lists
\* as its prerequisite and that the same run exports too.
C37_NoOrderingViolation ==
  \A i, j \in 1..Len(exportCalls) :
    i < j => exportCalls[j].module \notin Range(MODULE_DEPENDENCIES(exportCalls[i].module))

(***************************************************************************)
(* Concurrent ModuleExporter.exportModule calls                            *)
(***************************************************************************)
\* most exportModule calls in flight at once
MaxInflight == 3

\* a call: its module, where it stands ("delay": awaiting the timer of
\* lines 281-283, "running": awaiting ExportCommand.run, "done", "failed")
\* and how often it has run the export command
Call(m, stage, runs) == [module |-> m, stage |-> stage, runs |-> runs]

\* the calls made in one tick, as by Promise.all: each has logged, built its
\* command and set its timer
CallLists == UNION {[1..n -> {Call(m, "delay", 0) : m \in CalledModules}] : n \in 1..MaxInflight}

\* the part of the state that no exportModule call touches
runVarsButExporter ==
  <<cfg, query, stack, matched, loopIdx, parsedQuery, stepVars, closureVars,
    dependencyVars, assetVars, modules, orderedModules, sortVars, executorVars,
    flagVars, validatorVars>>

\* lines 281-286: the timer of call i fires and the call runs the export
\* command
DelayElapses ==
  /\ pc = "concurrent"
  /\ \E i \in 1..Len(inflight) :
       /\ inflight[i].stage = "delay"
       /\ inflight' = [inflight EXCEPT ![i] = Call(@.module, "running", @.runs + 1)]
       /\ exportCalls' = Append(exportCalls, ExportCall(inflight[i].module, "none", <<>>))
  /\ UNCHANGED <<runVarsButExporter, pc, exportedModules, logs, schemaVars, stringVars,
                 fileVars, pageVars>>

\* lines 286-301: the export command of call i completes or throws; what
\* follows the await runs without interruption
CommandCompletes ==
  /\ pc = "concurrent"
  /\ \E i \in 1..Len(inflight), ok \in BOOLEAN :
       /\ inflight[i].stage = "running"
       /\ inflight' = [inflight EXCEPT ![i] = Call(@.module, IF ok THEN "done" ELSE "failed",
                                                   @.runs)]
       /\ exportedModules' = ledgerAfter(exportedModules, inflight[i].module, ok)
       /\ logs' = logs \cup
            {IF ok THEN Log("info", "Successfully exported", inflight[i].module)
                   ELSE Log("error", "Failed to export", inflight[i].module)}
  /\ UNCHANGED <<runVarsButExporter, pc, exportCalls, schemaVars, stringVars, fileVars,
                 pageVars>>

InitConcurrent ==
  /\ Detached
  /\ pc = "concurrent"
  /\ inflight \in CallLists
  /\ IdleSchema
  /\ IdleString
  /\ IdleFiles
  /\ IdlePages

NextConcurrent == DelayElapses \/ CommandCompletes

SpecConcurrent == InitConcurrent /\ [][NextConcurrent]_vars

AllCompleted == \A i \in 1..Len(inflight) : inflight[i].stage \in {"done", "failed"}

\* C38: under every interleaving a call has run the export command once as
\* soon as its delay has passed and never again, and when every call has
\* completed the ledger holds the modules of the successful calls, each once.
C38_ConcurrentCallsRunOnce ==
  /\ \A i \in 1..Len(inflight) :
       inflight[i].runs = IF inflight[i].stage = "delay" THEN 0 ELSE 1
  /\ Len(exportCalls) = Cardinality({i \in 1..Len(inflight) : inflight[i].stage # "delay"})
  /\ AllCompleted =>
       /\ NoDuplicates(exportedModules)
       /\ Range(exportedModules) =
            {inflight[i].module : i \in {j \in 1..Len(inflight) : inflight[j].stage = "done"}}

\* three calls, two of them for the same module, have all succeeded, the
\* later call first, and the ledger names each module once
C38_Witness ==
  /\ AllCompleted
  /\ Len(inflight) = 3
  /\ inflight[1].module = "locales"
  /\ inflight[2].module = "locales"
  /\ inflight[3].module = "entries"
  /\ \A i \in 1..3 : inflight[i].stage = "done"
  /\ exportedModules = <<"entries", "locales">>

\* the UIDs of the content types of schema.json, in file order
SchemaFileUIDs == [i \in 1..Len(schemaFile) |-> schemaFile[i].uid]

\* C39: the list the referenced-content-type loop writes to schema.json at
\* its end names no content type twice (the list the query exported names
\* none twice, and a fetch returns only content types that were requested).
C39_FinalSchemaWithoutDuplicates ==
  ("referenced" \in Range(completed) /\ loopExit # "none") => NoDuplicates(SchemaFileUIDs)

\* the loop has fetched twice over content types that refer back to exported
\* ones, and schema.json names the three content types once each
C39_Witness ==
  /\ "referenced" \in Range(completed)
  /\ Len(FetchRequests) >= 2
  /\ "blog" \in ReferencedFrom("author")
  /\ "blog" \in ReferencedFrom("tag")
  /\ Len(schemaFile) = 3
  /\ NoDuplicates(SchemaFileUIDs)

\* C40: for a list of distinct modules, in whatever order, the depth-first
\* sort over MODULE_DEPENDENCIES returns what orderModules returns for the
\* same modules, a permutation of the list.
C40_SortsAgree ==
  (pc = "sorted" /\ dependencyMap = "shipped" /\ NoDuplicates(moduleList)) =>
    /\ result = orderModules(Range(moduleList))
    /\ Range(result) = Range(moduleList)
    /\ Len(result) = Len(moduleList)

\* three modules given in the reverse of the export order come out in the
\* export order
C40_Witness ==
  /\ pc = "sorted"
  /\ dependencyMap = "shipped"
  /\ moduleList = <<"personalize", "entries", "stack">>
  /\ result = <<"stack", "entries", "personalize">>

====
